---- MODULE Spec2Model ----
(***************************************************************************)
(* Model of kai_core's affect state (backend/inference/affect.py) and      *)
(* memory log (backend/memory/memory_store.py).                            *)
(*                                                                         *)
(* Numbers.  The affect dimensions and the sentiment scores are floats in  *)
(* the code; here they are fixed-point integers in thousandths, so 1.0 is  *)
(* One = 1000 and the keyword delta -0.10 is -100.  Every sentiment score  *)
(* of the modelled texts is a multiple of 0.01, so one multiplication by   *)
(* 0.9 is exact.                                                           *)
(*                                                                         *)
(* Texts.  The sentiment scorer (VADER) is an opaque collaborator: a text  *)
(* is modelled by the scores the scorer returns for it and by the set of   *)
(* keyword_modifiers triggers that occur in its lowercased form.           *)
(***************************************************************************)
EXTENDS Integers, Sequences, FiniteSets, TLC

VARIABLES
    now,        \* the wall clock, time.time(), in seconds
    states,     \* Affect_State.states: (session_id, persona) -> Affect_Vector
    last,       \* the last affect call: [op, key, text]
    held,       \* the mapping a caller kept from get_vector: [handle, seen]
    pc,         \* concurrent updates: each thread's position in update_from_text
    txt,        \* concurrent updates: each thread's text argument
    tmp,        \* concurrent updates: the value a thread read and has not written yet
    cell,       \* concurrent updates: the Affect_Vector both threads update
    start,      \* concurrent updates: the Affect_Vector before either call began
    sessions,   \* Memory_Store.sessions: session_id -> list of entries
    file,       \* the content of MEMORY_FILE (eden_memory.json)
    mlast,      \* the last Memory_Store call and its arguments
    out,        \* what the last Memory_Store call returned
    writers,    \* concurrent saves: each thread's position in save, its entry and its file buffer
    processor,  \* the BERTweetEmotionProcessor: which models it has loaded
    jin,        \* the last analyze_journal_entry call: the text and what the scorer and the model do
    jres,       \* what that call returned or raised, and the score maps it went through
    lex,        \* the last get_emotion_weights call: the text and the map returned
    chat        \* the last event of the chat handler: the message received and the reply sent

vars == <<now, states, last, held, pc, txt, tmp, cell, start, sessions, file, mlast, out,
          writers, processor, jin, jres, lex, chat>>

affectVars == <<now, states, last, held>>
concVars == <<pc, txt, tmp, cell, start>>
memVars == <<sessions, file, mlast, out>>
saveVars == <<writers>>
journalVars == <<processor, jin, jres>>
apiVars == <<lex, chat>>

\* placeholders of the variables' own shapes, for "no key", "no text" and
\* "no mapping kept"
NoKey == <<"", "">>
NoText == [name |-> "", compound |-> 0, pos |-> 0, neg |-> 0, lowered |-> {}]
NoHandle == [handle |-> [ref |-> NoKey],
             seen |-> [valence |-> 0, arousal |-> 0, dominance |-> 0, trust |-> 0]]

----------------------------------------------------------------------------
(* Bounds and program constants *)

\* how many times the clock may advance
MaxTicks == 1

\* 1.0 in thousandths: the clamp bound of update_from_text
One == 1000

\* decay fires when more than this many seconds have passed
DecayAfter == 86400

\* the clock advances by a day, or by a day and a second
Elapsed == {DecayAfter, DecayAfter + 1}

Dims == <<"valence", "arousal", "dominance", "trust">>

\* the request threads that may run Affect_State.update at the same time
Threads == {"A", "B"}

Sessions == {"s1", "s2"}
Personas == {"kai"}
Keys == Sessions \X Personas

\* MEMORY_FILE does not exist
NoFile == [kind |-> "absent", members |-> {}, items |-> <<>>]

\* no Memory_Store call made yet; in a call's record, speaker "" stands for
\* speaker None or "" and tag_filter <<>> for tag_filter None or [] (the code
\* tests both by truth value), pre is the session table the call found
\* no entry: the call saved none
NoEntry == [timestamp |-> 0, speaker |-> "", message |-> <<>>, emotion |-> "", tags |-> <<>>]

NoCall == [op |-> "init", session |-> "", limit |-> 0, speaker |-> "",
           tag_filter |-> <<>>, tag |-> <<>>, pre |-> <<>>, entry |-> NoEntry]

\* a call that returns None; raised names the exception a call let out
NoResult == [entries |-> <<>>, count |-> 0, history |-> <<>>, raised |-> ""]

\* a thread that is not inside save
NotSaving == [pc |-> "idle", session |-> "", entry |-> NoEntry, buf |-> NoFile]

\* a map of scores without keys: the empty dict
NoScores == <<>>

\* no model is loaded and none is called
NoClassifierCall == [raised |-> FALSE, predictions |-> <<>>]

\* no call yet
NoInput == [text |-> [words |-> <<>>, bangs |-> 0, questions |-> 0, caps |-> 0, repeats |-> 0],
            scorer |-> [raised |-> FALSE, compound |-> 0],
            classifier |-> NoClassifierCall]

NoAnalysis == [primary_emotion |-> "", intensity |-> 0, confidence |-> 0,
               emotion_scores |-> NoScores, mood_category |-> "", analysis_method |-> ""]

NoOutcome == [called |-> FALSE, raised |-> "", result |-> NoAnalysis,
              bertweet_emotions |-> NoScores, pattern_emotions |-> NoScores,
              combined |-> NoScores, final_emotions |-> NoScores, primary |-> <<"", 0>>]

\* get_emotion_weights not called yet
NoWeights == [called |-> FALSE, words |-> <<>>, weights |-> NoScores, raised |-> ""]

\* no message of a chat turn
NoMessage == [prefix |-> "", words |-> <<>>, compound |-> 0, pos |-> 0, neg |-> 0, lowered |-> {}]

\* the chat handler has received nothing yet
NoTurn == [op |-> "init", session |-> "", persona |-> "", message |-> NoMessage,
           type |-> "", content |-> <<>>, tone |-> "", emotions |-> NoScores]

\* a processor without a model
NotLoaded == [bertweet_model |-> FALSE, fallback_model |-> FALSE]

\* a thread that is not inside update: statement 0
Idle == [i |-> 0, phase |-> "read"]

\* keyword_modifiers, in the dict's insertion order
keyword_modifiers == <<
    [keyword |-> "confess",        mods |-> << <<"dominance", -100>>, <<"trust", 120>> >>],
    [keyword |-> "confession",     mods |-> << <<"dominance", -100>>, <<"trust", 120>> >>],
    [keyword |-> "thank you",      mods |-> << <<"valence", 100>>, <<"trust", 70>> >>],
    [keyword |-> "appreciate",     mods |-> << <<"valence", 100>>, <<"trust", 70>> >>],
    [keyword |-> "leave me alone", mods |-> << <<"valence", -100>>, <<"arousal", -50>>, <<"trust", -80>> >>],
    [keyword |-> "goodbye",        mods |-> << <<"valence", -100>>, <<"arousal", -50>>, <<"trust", -80>> >>] >>

\* The texts: a name for the trace, the scorer's compound, pos and neg for the text, and the
\* triggers that are substrings of text.lower() ("confession" contains
\* "confess", so a text with the former has both).
Texts == {
    [name |-> "hello", compound |-> 0, pos |-> 0, neg |-> 0, lowered |-> {}],
    [name |-> "my confession", compound |-> 0, pos |-> 0, neg |-> 0,
     lowered |-> {"confess", "confession"}],
    [name |-> "thank you, wonderful", compound |-> 950, pos |-> 900, neg |-> 0,
     lowered |-> {"thank you"}],
    [name |-> "goodbye, i hate this", compound |-> -950, pos |-> 0, neg |-> 900,
     lowered |-> {"goodbye"}] }

\* the texts of the update that may have preceded the concurrent ones
StartTexts == {text \in Texts : text.compound > 0}

----------------------------------------------------------------------------
(* Affect_Vector *)

ZeroVector == [valence |-> 0, arousal |-> 0, dominance |-> 0, trust |-> 0]

\* Affect_Vector.__init__
NewVector(t) == [vector |-> ZeroVector, last_update |-> t]

Max(a, b) == IF a >= b THEN a ELSE b
Min(a, b) == IF a <= b THEN a ELSE b

\* x * 0.9 in thousandths
Mul09(x) == (x * 9) \div 10

\* a decay that also fires when exactly 24 hours have passed
DecayAtBoundary(av, t) ==
    IF t - av.last_update >= DecayAfter
    THEN [vector |-> [av.vector EXCEPT !.valence = Mul09(@), !.trust = Mul09(@)],
          last_update |-> t]
    ELSE av

\* Affect_Vector.decay at clock value t
decay(av, t) ==
    IF t - av.last_update > DecayAfter
    THEN [vector |-> [av.vector EXCEPT !.valence = Mul09(@), !.trust = Mul09(@)],
          last_update |-> t]
    ELSE av

\* an update that adds the scorer's pos - neg to the trust it finds
OverwriteAddsTrust(v, text) ==
    [v EXCEPT !.valence = text.compound,
              !.arousal = Max(text.pos, text.neg),
              !.trust = @ + text.pos - text.neg]

\* valence, arousal and trust overwritten from the scorer's output
Overwrite(v, text) ==
    [v EXCEPT !.valence = text.compound,
              !.arousal = Max(text.pos, text.neg),
              !.trust = text.pos - text.neg]

\* for dim, delta in modifications.items(): self.vector[dim] += delta
RECURSIVE ApplyMods(_, _, _)
ApplyMods(v, mods, i) ==
    IF i > Len(mods) THEN v
    ELSE ApplyMods([v EXCEPT ![mods[i][1]] = @ + mods[i][2]], mods, i + 1)

\* for keyword, modifications in keyword_modifiers.items(): if keyword in lowered
RECURSIVE ApplyKeywords(_, _, _)
ApplyKeywords(v, lowered, i) ==
    IF i > Len(keyword_modifiers) THEN v
    ELSE ApplyKeywords(
             IF keyword_modifiers[i].keyword \in lowered
             THEN ApplyMods(v, keyword_modifiers[i].mods, 1)
             ELSE v,
             lowered, i + 1)

\* the clamp with its lower bound forgotten
ClampNoFloor(x) == Min(One, x)

\* max(-1.0, min(1.0, x))
Clamp(x) == Max(-One, Min(One, x))

ClampAll(v) == [d \in DOMAIN v |-> Clamp(v[d])]

\* Affect_Vector.update_from_text at clock value t
update_from_text(av, text, t) ==
    LET d == decay(av, t)
    IN [d EXCEPT !.vector = ClampAll(ApplyKeywords(Overwrite(d.vector, text), text.lowered, 1))]

----------------------------------------------------------------------------
(* Affect_State, one call at a time *)

\* self.states[key] of a defaultdict(Affect_Vector): creates the vector when absent
Fetch(st, key, t) ==
    IF key \in DOMAIN st THEN st
    ELSE [k \in DOMAIN st \cup {key} |-> IF k = key THEN NewVector(t) ELSE st[k]]

\* the clock advances
Tick ==
    /\ \E e \in Elapsed :
         /\ now + e <= MaxTicks * (DecayAfter + 1)
         /\ now' = now + e
    /\ last' = [op |-> "tick", key |-> NoKey, text |-> NoText]
    /\ UNCHANGED <<states, held>>
    /\ UNCHANGED <<concVars, memVars, saveVars, journalVars, apiVars>>

\* Affect_State.update(text, session_id, persona)
Update(key, text) ==
    /\ LET st == Fetch(states, key, now)
       IN states' = [st EXCEPT ![key] = update_from_text(st[key], text, now)]
    /\ last' = [op |-> "update", key |-> key, text |-> text]
    /\ UNCHANGED <<now, held>>
    /\ UNCHANGED <<concVars, memVars, saveVars, journalVars, apiVars>>

\* Affect_State.get_vector(session_id, persona), its result read and dropped
GetVector(key) ==
    /\ states' = Fetch(states, key, now)
    /\ last' = [op |-> "get_vector", key |-> key, text |-> NoText]
    /\ UNCHANGED <<now, held>>
    /\ UNCHANGED <<concVars, memVars, saveVars, journalVars, apiVars>>

\* Affect_Vector.get: return self.vector, the dict object itself; the result
\* is modelled as a reference to the vector stored under the key
get(key) == [ref |-> key]

\* what a mapping returned by get holds when it is read in registry st
Deref(st, r) == st[r.ref].vector

\* Affect_State.get_vector(session_id, persona), the caller keeping the
\* returned mapping; seen is what the caller last read from or wrote to it
GetVectorKeep(key) ==
    /\ states' = Fetch(states, key, now)
    /\ held' = [handle |-> get(key), seen |-> Deref(states', get(key))]
    /\ last' = [op |-> "get_vector", key |-> key, text |-> NoText]
    /\ UNCHANGED now
    /\ UNCHANGED <<concVars, memVars, saveVars, journalVars, apiVars>>

\* the caller assigns to an item of the mapping it keeps: vec[dim] = value
CallerWrite(dim, value) ==
    /\ held # NoHandle
    /\ states' = [states EXCEPT ![held.handle.ref].vector[dim] = value]
    /\ held' = [held EXCEPT !.seen[dim] = value]
    /\ last' = [op |-> "caller_write", key |-> held.handle.ref, text |-> NoText]
    /\ UNCHANGED now
    /\ UNCHANGED <<concVars, memVars, saveVars, journalVars, apiVars>>

Init ==
    /\ now = 0
    /\ states = <<>>
    /\ last = [op |-> "init", key |-> NoKey, text |-> NoText]
    /\ held = NoHandle
    /\ pc = [t \in Threads |-> Idle]
    /\ txt = [t \in Threads |-> NoText]
    /\ tmp = [t \in Threads |-> 0]
    /\ cell = NewVector(0)
    /\ start = NewVector(0)
    /\ sessions = <<>>
    /\ file = NoFile
    /\ mlast = NoCall
    /\ out = NoResult
    /\ writers = [t \in Threads |-> NotSaving]
    /\ processor = NotLoaded
    /\ jin = NoInput
    /\ jres = NoOutcome
    /\ lex = NoWeights
    /\ chat = NoTurn

Next ==
    \/ Tick
    \/ \E key \in Keys, text \in Texts : Update(key, text)
    \/ \E key \in Keys : GetVector(key)

Spec == Init /\ [][Next]_vars

----------------------------------------------------------------------------
(* Affect_State.update run by two threads on the same key, statement by   *)
(* statement.  Nothing in update or update_from_text takes a lock, so the  *)
(* threads' statements interleave freely.  A plain assignment is one step; *)
(* an augmented assignment (times-equals, plus-equals) reads the item and  *)
(* writes it back in two steps.  The clamp assignment is taken as one      *)
(* step: the behaviours explored are a subset of those the interpreter     *)
(* allows.                                                                 *)

\* the += statements update_from_text runs for a text, in execution order
RECURSIVE ModInstrs(_, _)
ModInstrs(lowered, i) ==
    IF i > Len(keyword_modifiers) THEN <<>>
    ELSE (IF keyword_modifiers[i].keyword \in lowered
          THEN [j \in 1..Len(keyword_modifiers[i].mods) |->
                   [kind |-> "add", dim |-> keyword_modifiers[i].mods[j][1],
                    arg |-> keyword_modifiers[i].mods[j][2]]]
          ELSE <<>>)
         \o ModInstrs(lowered, i + 1)

\* the statements of update_from_text(text), decay inlined
Prog(text) ==
    << [kind |-> "decay_check", dim |-> "", arg |-> 0],
       [kind |-> "mul09", dim |-> "valence", arg |-> 0],
       [kind |-> "mul09", dim |-> "trust", arg |-> 0],
       [kind |-> "stamp", dim |-> "", arg |-> 0],
       [kind |-> "set", dim |-> "valence", arg |-> text.compound],
       [kind |-> "set", dim |-> "arousal", arg |-> Max(text.pos, text.neg)],
       [kind |-> "set", dim |-> "trust", arg |-> text.pos - text.neg] >>
    \o ModInstrs(text.lowered, 1)
    \o [j \in 1..Len(Dims) |-> [kind |-> "clamp", dim |-> Dims[j], arg |-> 0]]

\* Prog, tabulated
ProgOf == [text \in Texts \cup {NoText} |-> Prog(text)]

Running(t) == pc[t].i >= 1 /\ pc[t].i <= Len(ProgOf[txt[t]])
Done(t) == pc[t].i > Len(ProgOf[txt[t]])
Instr(t) == ProgOf[txt[t]][pc[t].i]
Goto(t, i) == pc' = [pc EXCEPT ![t] = [i |-> i, phase |-> "read"]]

\* a thread enters Affect_State.update(text, session_id, persona)
Call(t, text) ==
    /\ pc[t] = Idle
    /\ txt' = [txt EXCEPT ![t] = text]
    /\ Goto(t, 1)
    /\ UNCHANGED <<tmp, cell, start>>
    /\ UNCHANGED <<affectVars, memVars, saveVars, journalVars, apiVars>>

\* decay: if time_since > 86400, else nothing
DecayCheck(t) ==
    /\ Running(t)
    /\ Instr(t).kind = "decay_check"
    /\ IF now - cell.last_update > DecayAfter
       THEN Goto(t, pc[t].i + 1)
       ELSE Goto(t, pc[t].i + 4)
    /\ UNCHANGED <<txt, tmp, cell, start>>
    /\ UNCHANGED <<affectVars, memVars, saveVars, journalVars, apiVars>>

\* decay: self.last_update = now
Stamp(t) ==
    /\ Running(t)
    /\ Instr(t).kind = "stamp"
    /\ cell' = [cell EXCEPT !.last_update = now]
    /\ Goto(t, pc[t].i + 1)
    /\ UNCHANGED <<txt, tmp, start>>
    /\ UNCHANGED <<affectVars, memVars, saveVars, journalVars, apiVars>>

\* self.vector[dim] = <score>
SetDim(t) ==
    /\ Running(t)
    /\ Instr(t).kind = "set"
    /\ cell' = [cell EXCEPT !.vector[Instr(t).dim] = Instr(t).arg]
    /\ Goto(t, pc[t].i + 1)
    /\ UNCHANGED <<txt, tmp, start>>
    /\ UNCHANGED <<affectVars, memVars, saveVars, journalVars, apiVars>>

\* self.vector[dim] = max(-1.0, min(1.0, self.vector[dim]))
ClampDim(t) ==
    /\ Running(t)
    /\ Instr(t).kind = "clamp"
    /\ cell' = [cell EXCEPT !.vector[Instr(t).dim] = Clamp(@)]
    /\ Goto(t, pc[t].i + 1)
    /\ UNCHANGED <<txt, tmp, start>>
    /\ UNCHANGED <<affectVars, memVars, saveVars, journalVars, apiVars>>

\* the read half of  self.vector[dim] *= 0.9  and  self.vector[dim] += delta
ReadDim(t) ==
    /\ Running(t)
    /\ Instr(t).kind \in {"mul09", "add"}
    /\ pc[t].phase = "read"
    /\ tmp' = [tmp EXCEPT ![t] = cell.vector[Instr(t).dim]]
    /\ pc' = [pc EXCEPT ![t].phase = "write"]
    /\ UNCHANGED <<txt, cell, start>>
    /\ UNCHANGED <<affectVars, memVars, saveVars, journalVars, apiVars>>

\* the write half of the same statements
WriteDim(t) ==
    /\ Running(t)
    /\ Instr(t).kind \in {"mul09", "add"}
    /\ pc[t].phase = "write"
    /\ cell' = [cell EXCEPT !.vector[Instr(t).dim] =
                    IF Instr(t).kind = "mul09" THEN Mul09(tmp[t])
                    ELSE tmp[t] + Instr(t).arg]
    /\ tmp' = [tmp EXCEPT ![t] = 0]
    /\ Goto(t, pc[t].i + 1)
    /\ UNCHANGED <<txt, start>>
    /\ UNCHANGED <<affectVars, memVars, saveVars, journalVars, apiVars>>

\* the vector of the key both threads update: as created at time 0, or as
\* one earlier update at time 0 left it; the threads arrive at time 0, or a
\* day and a second later
InitConc ==
    /\ now \in {0, DecayAfter + 1}
    /\ states = <<>>
    /\ last = [op |-> "init", key |-> NoKey, text |-> NoText]
    /\ held = NoHandle
    /\ pc = [t \in Threads |-> Idle]
    /\ txt = [t \in Threads |-> NoText]
    /\ tmp = [t \in Threads |-> 0]
    /\ cell \in {NewVector(0)} \cup {update_from_text(NewVector(0), text, 0) : text \in StartTexts}
    /\ start = cell
    /\ sessions = <<>>
    /\ file = NoFile
    /\ mlast = NoCall
    /\ out = NoResult
    /\ writers = [t \in Threads |-> NotSaving]
    /\ processor = NotLoaded
    /\ jin = NoInput
    /\ jres = NoOutcome
    /\ lex = NoWeights
    /\ chat = NoTurn

NextConc ==
    \/ \E t \in Threads, text \in Texts : Call(t, text)
    \/ \E t \in Threads : DecayCheck(t)
    \/ \E t \in Threads : Stamp(t)
    \/ \E t \in Threads : SetDim(t)
    \/ \E t \in Threads : ReadDim(t)
    \/ \E t \in Threads : WriteDim(t)
    \/ \E t \in Threads : ClampDim(t)

SpecConc == InitConc /\ [][NextConc]_vars

----------------------------------------------------------------------------
(* Memory_Store *)
(*                                                                         *)
(* A tag is the tuple of its colon-separated parts: "flag:sexualized" is   *)
(* <<"flag", "sexualized">>.  An entry's timestamp, the ISO string of      *)
(* utcnow() to the second, is the clock value in seconds.                  *)

\* the most entries the store may hold, all sessions together
MaxEntries == 2

\* the largest limit passed to get_recent
MaxLimit == 2

SessionIds == {"default", "s1"}
\* a message is the tuple of its space-separated words
Messages == {<<"hi">>}
Emotions == {"neutral"}

FlagTag == <<"flag", "sexualized">>

\* tags that start with affect:trust: and are not what save_affect_score
\* writes: no score part, a persona with a colon in it, a word for the score
ShortTrustTag == <<"affect", "trust", "kai">>
LongTrustTag == <<"affect", "trust", "k", "ai", "0.42">>
WordTrustTag == <<"affect", "trust", "kai", "high">>
\* a well-formed trust tag passed to save directly
GoodTrustTag == <<"affect", "trust", "kai", "0.43">>

\* the (speaker, tags) pairs save is called with; <<>> stands for the tags
\* None and []
SaveArgs ==
    {<<"user", <<>> >>, <<"user", <<FlagTag>> >>,
     <<"user", <<ShortTrustTag, LongTrustTag>> >>, <<"kai", <<WordTrustTag, GoodTrustTag>> >>}

\* trust scores passed to save_affect_score, in thousandths
TrustScores == {424}

\* the text of a number with two decimals, by its value in hundredths
Numeral == [h \in {42, 43} |-> IF h = 42 THEN "0.42" ELSE "0.43"]

\* f"{x:.2f}" of x thousandths: rounded to hundredths
Fmt2(x) == Numeral[(x + 5) \div 10]

Range(seq) == {seq[i] : i \in 1..Len(seq)}

RECURSIVE Reversed(_)
Reversed(seq) ==
    IF seq = <<>> THEN <<>> ELSE Append(Reversed(Tail(seq)), Head(seq))

\* self.sessions.get(session_id, [])
Records(tbl, session_id) ==
    IF session_id \in DOMAIN tbl THEN tbl[session_id] ELSE <<>>

TotalEntries(tbl) ==
    LET RECURSIVE Sum(_)
        Sum(S) == IF S = {} THEN 0
                  ELSE LET s == CHOOSE x \in S : TRUE
                       IN Len(tbl[s]) + Sum(S \ {s})
    IN Sum(DOMAIN tbl)

\* json.dump of one entry: an object, its members in the dict's order
DumpEntry(e) ==
    << <<"timestamp", e.timestamp>>, <<"speaker", e.speaker>>, <<"message", e.message>>,
       <<"emotion", e.emotion>>, <<"tags", e.tags>> >>

\* the value of member name of a JSON object
Member(obj, name) == obj[CHOOSE i \in 1..Len(obj) : obj[i][1] = name][2]

\* json.load of one entry
LoadEntry(obj) ==
    [timestamp |-> Member(obj, "timestamp"), speaker |-> Member(obj, "speaker"),
     message |-> Member(obj, "message"), emotion |-> Member(obj, "emotion"),
     tags |-> Member(obj, "tags")]

\* a load that returns the entries newest first
LoadListReversed(items) == [i \in 1..Len(items) |-> LoadEntry(items[Len(items) + 1 - i])]

DumpList(records) == [i \in 1..Len(records) |-> DumpEntry(records[i])]
LoadList(items) == [i \in 1..Len(items) |-> LoadEntry(items[i])]

\* json.dump(self.sessions, f): an object with one member per session
json_dump(tbl) ==
    [kind |-> "object",
     members |-> {<<k, DumpList(tbl[k])>> : k \in DOMAIN tbl},
     items |-> <<>>]

\* a persist that leaves out the sessions that hold no entry
PersistNonEmpty(tbl) ==
    json_dump([k \in {x \in DOMAIN tbl : tbl[x] # <<>>} |-> tbl[k]])

\* _persist: the file is opened for writing and the whole table dumped
_persist(tbl) == json_dump(tbl)

\* what a write that broke off leaves: a file opened with "w" is cut to
\* nothing, and a part of the dump is no JSON document
Truncated == [kind |-> "truncated", members |-> {}, items |-> <<>>]

\* how the write of _persist may end: completed, open() raised, or the dump
\* raised after open() had emptied the file
Failures == {"open", "write"}

\* _persist on a storage that may fail: the file left behind and the
\* exception raised ("" for none)
PersistOutcome(f, tbl, failure) ==
    IF failure = "open" THEN [file |-> f, raised |-> "OSError"]
    ELSE IF failure = "write" THEN [file |-> Truncated, raised |-> "OSError"]
    ELSE [file |-> _persist(tbl), raised |-> ""]

\* json.load raises on a file that holds no complete JSON document
Loadable(f) == f.kind # "truncated"

\* _load: a top-level list is the old format and becomes session "default"
_load(f) ==
    IF f.kind = "array"
    THEN [k \in {"default"} |-> LoadList(f.items)]
    ELSE [k \in {m[1] : m \in f.members} |->
             LoadList((CHOOSE m \in f.members : m[1] = k)[2])]

\* Memory_Store.__init__
Construct(f) == IF f.kind = "absent" THEN <<>> ELSE _load(f)

\* the new entry put first instead of last
PrependEntry(tbl, session_id, entry) ==
    [k \in DOMAIN tbl \cup {session_id} |->
        IF k = session_id THEN <<entry>> \o Records(tbl, session_id) ELSE tbl[k]]

\* the new entry written over the session's last one
ReplaceLastEntry(tbl, session_id, entry) ==
    [k \in DOMAIN tbl \cup {session_id} |->
        IF k = session_id
        THEN (IF Records(tbl, session_id) = <<>> THEN <<entry>>
              ELSE [Records(tbl, session_id) EXCEPT ![Len(Records(tbl, session_id))] = entry])
        ELSE tbl[k]]

\* self.sessions[session_id].append(entry), on a defaultdict(list)
AppendEntry(tbl, session_id, entry) ==
    [k \in DOMAIN tbl \cup {session_id} |->
        IF k = session_id THEN Append(Records(tbl, session_id), entry) ELSE tbl[k]]

\* a clear that removes only the session's last entry
ClearSessionKeepFirst(tbl, session_id) ==
    [k \in DOMAIN tbl \cup {session_id} |->
        IF k = session_id
        THEN SubSeq(Records(tbl, session_id), 1, Len(Records(tbl, session_id)) - 1)
        ELSE tbl[k]]

\* self.sessions[session_id] = []
ClearSession(tbl, session_id) ==
    [k \in DOMAIN tbl \cup {session_id} |-> IF k = session_id THEN <<>> ELSE tbl[k]]

\* the loop of get_recent, from records[i] down to the oldest
RECURSIVE Scan(_, _, _, _, _, _)
Scan(records, i, acc, limit, speaker, tag_filter) ==
    IF i = 0 THEN acc
    ELSE IF speaker # "" /\ records[i].speaker # speaker
         THEN Scan(records, i - 1, acc, limit, speaker, tag_filter)
    ELSE IF tag_filter # <<>> /\ ~(\E t \in Range(tag_filter) : t \in Range(records[i].tags))
         THEN Scan(records, i - 1, acc, limit, speaker, tag_filter)
    ELSE IF Len(acc) + 1 = limit
         THEN Append(acc, records[i])
    ELSE Scan(records, i - 1, Append(acc, records[i]), limit, speaker, tag_filter)

\* Memory_Store.get_recent
get_recent(tbl, limit, session_id, speaker, tag_filter) ==
    LET records == Records(tbl, session_id)
    IN Reversed(Scan(records, Len(records), <<>>, limit, speaker, tag_filter))

\* Memory_Store.count_tag
count_tag(tbl, tag, session_id) ==
    LET records == Records(tbl, session_id)
    IN Cardinality({i \in 1..Len(records) : tag \in Range(records[i].tags)})

\* the value in thousandths of a numeral
NumeralValue(s) == IF s = "0.42" THEN 420 ELSE 430
IsNumeral(s) == s \in {Numeral[h] : h \in DOMAIN Numeral}

\* float(s): the value, or ValueError for a text that is no number
float(s) ==
    IF IsNumeral(s) THEN [raised |-> "", value |-> NumeralValue(s)]
    ELSE [raised |-> "ValueError", value |-> 0]

\* tag.startswith("affect:trust:"), on the parts of the tag
StartsWithAffectTrust(parts) ==
    Len(parts) >= 3 /\ parts[1] = "affect" /\ parts[2] = "trust"

\* the try statement without its except clause: a ValueError leaves it
TryTagNoExcept(timestamp, parts) ==
    IF Len(parts) = 4
    THEN LET r == float(parts[Len(parts)])
         IN IF r.raised = "" THEN [pairs |-> << <<timestamp, r.value>> >>, raised |-> ""]
            ELSE [pairs |-> <<>>, raised |-> r.raised]
    ELSE [pairs |-> <<>>, raised |-> ""]

\* get_trust_history, the try statement run for one trust tag: the pairs it
\* appends and the exception that leaves it ("" for none)
TryTag(timestamp, parts) ==
    IF Len(parts) = 4
    THEN LET r == float(parts[Len(parts)])
         IN IF r.raised = "" THEN [pairs |-> << <<timestamp, r.value>> >>, raised |-> ""]
            ELSE IF r.raised = "ValueError" THEN [pairs |-> <<>>, raised |-> ""]
            ELSE [pairs |-> <<>>, raised |-> r.raised]
    ELSE [pairs |-> <<>>, raised |-> ""]

\* get_trust_history, the tags of one entry from tag j on
RECURSIVE TrustOfTags(_, _, _)
TrustOfTags(timestamp, tags, j) ==
    IF j > Len(tags) THEN [pairs |-> <<>>, raised |-> ""]
    ELSE LET one == IF StartsWithAffectTrust(tags[j]) THEN TryTag(timestamp, tags[j])
                    ELSE [pairs |-> <<>>, raised |-> ""]
         IN IF one.raised # "" THEN one
            ELSE LET rest == TrustOfTags(timestamp, tags, j + 1)
                 IN [pairs |-> one.pairs \o rest.pairs, raised |-> rest.raised]

\* get_trust_history, the entries from entry i on
RECURSIVE TrustOfEntries(_, _, _)
TrustOfEntries(records, speaker, i) ==
    IF i > Len(records) THEN [pairs |-> <<>>, raised |-> ""]
    ELSE LET one == IF speaker # "" /\ records[i].speaker # speaker
                    THEN [pairs |-> <<>>, raised |-> ""]
                    ELSE TrustOfTags(records[i].timestamp, records[i].tags, 1)
         IN IF one.raised # "" THEN one
            ELSE LET rest == TrustOfEntries(records, speaker, i + 1)
                 IN [pairs |-> one.pairs \o rest.pairs, raised |-> rest.raised]

\* Memory_Store.get_trust_history: the list returned, or the exception raised
get_trust_history(tbl, session_id, speaker) ==
    LET r == TrustOfEntries(Records(tbl, session_id), speaker, 1)
    IN [history |-> IF r.raised = "" THEN r.pairs ELSE <<>>, raised |-> r.raised]

CallRecord(op, session_id) == [NoCall EXCEPT !.op = op, !.session = session_id, !.pre = sessions]

\* a save that catches what _persist raises and returns normally
SaveSwallows(raised) == ""

\* save calls self._persist() outside any try statement: what _persist
\* raises is what save raises
SaveRaises(raised) == raised

\* Memory_Store.save, with the way its write to the file ends
SaveCall(speaker, message, emotion, tags, session_id, failure) ==
    LET entry == [timestamp |-> now, speaker |-> speaker, message |-> message,
                  emotion |-> emotion, tags |-> tags]
        appended == AppendEntry(sessions, session_id, entry)
        written == PersistOutcome(file, appended, failure)
    IN /\ TotalEntries(sessions) < MaxEntries
       /\ sessions' = appended
       /\ file' = written.file
       /\ mlast' = [CallRecord("save", session_id) EXCEPT !.entry = entry]
       /\ out' = [NoResult EXCEPT !.raised = SaveRaises(written.raised)]
       /\ UNCHANGED <<affectVars, concVars, saveVars, journalVars, apiVars>>

\* Memory_Store.save on a storage that works
Save(speaker, message, emotion, tags, session_id) ==
    SaveCall(speaker, message, emotion, tags, session_id, "none")

\* Memory_Store.save on a storage that fails
SaveFails(speaker, message, emotion, tags, session_id, failure) ==
    /\ failure \in Failures
    /\ SaveCall(speaker, message, emotion, tags, session_id, failure)

\* Memory_Store.save_affect_score
SaveAffectScore(persona, trust_score, session_id) ==
    /\ TotalEntries(sessions) < MaxEntries
    /\ sessions' = AppendEntry(sessions, session_id,
                       [timestamp |-> now, speaker |-> persona,
                        message |-> <<"[affect-trust-update]", Fmt2(trust_score)>>,
                        emotion |-> "neutral",
                        tags |-> << <<"affect", "trust", persona, Fmt2(trust_score)>> >>])
    /\ file' = _persist(sessions')
    /\ mlast' = CallRecord("save_affect_score", session_id)
    /\ out' = NoResult
    /\ UNCHANGED <<affectVars, concVars, saveVars, journalVars, apiVars>>

\* Memory_Store.get_recent
GetRecent(limit, session_id, speaker, tag_filter) ==
    /\ out' = [NoResult EXCEPT !.entries = get_recent(sessions, limit, session_id, speaker, tag_filter)]
    /\ mlast' = [CallRecord("get_recent", session_id)
                    EXCEPT !.limit = limit, !.speaker = speaker, !.tag_filter = tag_filter]
    /\ UNCHANGED <<sessions, file>>
    /\ UNCHANGED <<affectVars, concVars, saveVars, journalVars, apiVars>>

\* Memory_Store.count_tag
CountTag(tag, session_id) ==
    /\ out' = [NoResult EXCEPT !.count = count_tag(sessions, tag, session_id)]
    /\ mlast' = [CallRecord("count_tag", session_id)
                    EXCEPT !.tag = tag]
    /\ UNCHANGED <<sessions, file>>
    /\ UNCHANGED <<affectVars, concVars, saveVars, journalVars, apiVars>>

\* Memory_Store.get_trust_history
GetTrustHistory(session_id, speaker) ==
    /\ out' = [NoResult EXCEPT !.history = get_trust_history(sessions, session_id, speaker).history,
                                !.raised = get_trust_history(sessions, session_id, speaker).raised]
    /\ mlast' = [CallRecord("get_trust_history", session_id)
                    EXCEPT !.speaker = speaker]
    /\ UNCHANGED <<sessions, file>>
    /\ UNCHANGED <<affectVars, concVars, saveVars, journalVars, apiVars>>

\* Memory_Store.clear
Clear(session_id) ==
    /\ sessions' = ClearSession(sessions, session_id)
    /\ file' = _persist(sessions')
    /\ mlast' = CallRecord("clear", session_id)
    /\ out' = NoResult
    /\ UNCHANGED <<affectVars, concVars, saveVars, journalVars, apiVars>>

\* Memory_Store.clear_all
ClearAll ==
    /\ sessions' = <<>>
    /\ file' = _persist(sessions')
    /\ mlast' = CallRecord("clear_all", "")
    /\ out' = NoResult
    /\ UNCHANGED <<affectVars, concVars, saveVars, journalVars, apiVars>>

\* the process ends and a new one constructs Memory_Store() over the file
Restart ==
    /\ Loadable(file)
    /\ sessions' = Construct(file)
    /\ mlast' = CallRecord("restart", "")
    /\ out' = NoResult
    /\ UNCHANGED file
    /\ UNCHANGED <<affectVars, concVars, saveVars, journalVars, apiVars>>

\* an entry a store of the old, single-list format may hold
OldEntry == [timestamp |-> 0, speaker |-> "user", message |-> <<"hi">>,
             emotion |-> "neutral", tags |-> <<FlagTag>>]

\* the memory file found by the first Memory_Store(): none, one of the old
\* format, or one written by an earlier run
InitialFiles ==
    {NoFile,
     [kind |-> "array", members |-> {}, items |-> DumpList(<<OldEntry>>)],
     json_dump([k \in {"s1"} |-> <<OldEntry>>])}

InitMem ==
    /\ now = 0
    /\ states = <<>>
    /\ last = [op |-> "init", key |-> NoKey, text |-> NoText]
    /\ held = NoHandle
    /\ pc = [t \in Threads |-> Idle]
    /\ txt = [t \in Threads |-> NoText]
    /\ tmp = [t \in Threads |-> 0]
    /\ cell = NewVector(0)
    /\ start = NewVector(0)
    /\ file \in InitialFiles
    /\ sessions = Construct(file)
    /\ mlast = NoCall
    /\ out = NoResult
    /\ writers = [t \in Threads |-> NotSaving]
    /\ processor = NotLoaded
    /\ jin = NoInput
    /\ jres = NoOutcome
    /\ lex = NoWeights
    /\ chat = NoTurn

SpeakerArgs == {"", "user"}
TagFilterArgs == {<<>>, <<FlagTag>>}

NextMem ==
    \/ \E args \in SaveArgs, message \in Messages, emotion \in Emotions,
          session_id \in SessionIds :
          Save(args[1], message, emotion, args[2], session_id)
    \/ \E trust_score \in TrustScores, session_id \in SessionIds :
          SaveAffectScore("kai", trust_score, session_id)
    \/ \E limit \in 0..MaxLimit, session_id \in SessionIds,
          speaker \in SpeakerArgs, tag_filter \in TagFilterArgs :
          GetRecent(limit, session_id, speaker, tag_filter)
    \/ \E session_id \in SessionIds : CountTag(FlagTag, session_id)
    \/ \E session_id \in SessionIds, speaker \in SpeakerArgs : GetTrustHistory(session_id, speaker)
    \/ \E session_id \in SessionIds : Clear(session_id)
    \/ ClearAll
    \/ Restart

SpecMem == InitMem /\ [][NextMem]_vars

\* the store on a storage whose writes may fail: saves that complete, saves
\* that fail, reads, and restarts over the file the writes left
NextMemFail ==
    \/ \E args \in SaveArgs, message \in Messages, emotion \in Emotions,
          session_id \in SessionIds :
          Save(args[1], message, emotion, args[2], session_id)
    \/ \E limit \in 0..MaxLimit, session_id \in SessionIds, speaker \in SpeakerArgs :
          GetRecent(limit, session_id, speaker, <<>>)
    \/ \E session_id \in SessionIds : Clear(session_id)
    \/ Restart
    \/ \E args \in SaveArgs, message \in Messages, emotion \in Emotions,
          session_id \in SessionIds, failure \in Failures :
          SaveFails(args[1], message, emotion, args[2], session_id, failure)

SpecMemFail == InitMem /\ [][NextMemFail]_vars

----------------------------------------------------------------------------
(* Two threads inside save on one Memory_Store *)
(*                                                                         *)
(* save takes no lock.  A call is four steps another thread may run        *)
(* between: the append to the session's list, open(MEMORY_FILE, "w"),      *)
(* which empties the file, json.dump, which fills the handle's buffer from *)
(* the table as it is then, and the close, which writes the buffer from    *)
(* offset 0 of the handle.  The tables here dump to less than one buffer,  *)
(* so nothing is written before the close.                                 *)

\* the length of a file's text, in entries (every entry is taken to dump
\* to a text of one length): what a longer text leaves after a shorter one
\* written over its start decides whether the file is still a document
TextSize(f) ==
    IF f.kind \in {"object", "garbled"}
    THEN LET RECURSIVE Sum(_)
             Sum(S) == IF S = {} THEN 0
                       ELSE LET m == CHOOSE x \in S : TRUE
                            IN Len(m[2]) + Sum(S \ {m})
         IN Sum(f.members)
    ELSE Len(f.items)

\* the file after the text buf is written at offset 0 over the content f:
\* a longer content keeps its tail, and the two texts together are no
\* JSON document
WriteOver(f, buf) ==
    IF TextSize(f) > TextSize(buf)
    THEN [kind |-> "garbled", members |-> f.members, items |-> <<>>]
    ELSE buf

\* whether json.load can read the file back
WellFormed(f) == f.kind \in {"array", "object"}

InSave(t, at) == writers[t].pc = at

\* save: the entry is built and appended to the session's list
SaveAppend(t, speaker, message, emotion, tags, session_id) ==
    LET entry == [timestamp |-> now, speaker |-> speaker, message |-> message,
                  emotion |-> emotion, tags |-> tags]
    IN /\ InSave(t, "idle")
       /\ TotalEntries(sessions) < MaxEntries
       /\ sessions' = AppendEntry(sessions, session_id, entry)
       /\ writers' = [writers EXCEPT ![t] = [pc |-> "appended", session |-> session_id,
                                              entry |-> entry, buf |-> NoFile]]
       /\ UNCHANGED <<file, mlast, out>>
       /\ UNCHANGED <<affectVars, concVars, journalVars, apiVars>>

\* _persist: MEMORY_FILE.open("w") empties the file
SaveOpen(t) ==
    /\ InSave(t, "appended")
    /\ file' = Truncated
    /\ writers' = [writers EXCEPT ![t].pc = "opened"]
    /\ UNCHANGED <<sessions, mlast, out>>
    /\ UNCHANGED <<affectVars, concVars, journalVars, apiVars>>

\* _persist: json.dump writes the table, as it is now, to the handle
SaveDump(t) ==
    /\ InSave(t, "opened")
    /\ writers' = [writers EXCEPT ![t].pc = "dumped", ![t].buf = json_dump(sessions)]
    /\ UNCHANGED <<sessions, file, mlast, out>>
    /\ UNCHANGED <<affectVars, concVars, journalVars, apiVars>>

\* _persist: leaving the with statement closes the handle, which writes its
\* buffer; save returns
SaveClose(t) ==
    /\ InSave(t, "dumped")
    /\ file' = WriteOver(file, writers[t].buf)
    /\ writers' = [writers EXCEPT ![t].pc = "returned"]
    /\ UNCHANGED <<sessions, mlast, out>>
    /\ UNCHANGED <<affectVars, concVars, journalVars, apiVars>>

\* the caller goes on to its next save
SaveNext(t) ==
    /\ InSave(t, "returned")
    /\ writers' = [writers EXCEPT ![t] = NotSaving]
    /\ UNCHANGED <<sessions, file, mlast, out>>
    /\ UNCHANGED <<affectVars, concVars, journalVars, apiVars>>

NextSaveConc ==
    \/ \E t \in Threads, args \in SaveArgs, message \in Messages, emotion \in Emotions,
          session_id \in SessionIds :
          SaveAppend(t, args[1], message, emotion, args[2], session_id)
    \/ \E t \in Threads : SaveOpen(t)
    \/ \E t \in Threads : SaveDump(t)
    \/ \E t \in Threads : SaveClose(t)
    \/ \E t \in Threads : SaveNext(t)

SpecSaveConc == InitMem /\ [][NextSaveConc]_vars

----------------------------------------------------------------------------
(* BERTweetEmotionProcessor: the journal entry analysis *)
(*                                                                         *)
(* Scores are in thousandths, as above.  A text is the tuple of its        *)
(* lower-cased words with what the punctuation and spelling rules count:   *)
(* its "!" and "?", its words written in capitals and its runs of three    *)
(* or more equal characters.  A trigger phrase is the tuple of its words.  *)
(* The sentiment scorer (VADER) and the classifier (a transformers         *)
(* pipeline) are outside the repository: what they return for a text is    *)
(* an input of the call.                                                   *)

\* self.emotion_patterns: category -> group -> trigger phrases
emotion_patterns ==
    [happy |->
        [direct |-> {<<"happy">>, <<"joy">>, <<"joyful">>, <<"excited">>,
                     <<"thrilled">>, <<"elated">>, <<"cheerful">>,
                     <<"delighted">>, <<"ecstatic">>, <<"euphoric">>,
                     <<"blissful">>, <<"blessed">>},
         modern |-> {<<"lit">>, <<"fire">>, <<"amazing">>, <<"awesome">>,
                     <<"incredible">>, <<"perfect">>, <<"best", "day", "ever">>},
         social |-> {<<"so", "happy">>, <<"cant", "even">>,
                     <<"literally", "the", "best">>,
                     <<"living", "my", "best", "life">>}],
     sad |->
        [direct |-> {<<"sad">>, <<"depressed">>, <<"down">>, <<"blue">>,
                     <<"melancholy">>, <<"heartbroken">>, <<"dejected">>,
                     <<"despondent">>, <<"gloomy">>, <<"devastated">>},
         modern |-> {<<"dead", "inside">>, <<"broken">>, <<"shattered">>,
                     <<"crushed">>, <<"destroyed">>},
         social |-> {<<"big", "sad">>, <<"sad", "vibes">>, <<"not", "okay">>,
                     <<"cant", "deal">>}],
     mad |->
        [direct |-> {<<"angry">>, <<"mad">>, <<"furious">>, <<"irate">>,
                     <<"livid">>, <<"enraged">>, <<"pissed">>, <<"outraged">>,
                     <<"incensed">>},
         modern |-> {<<"heated">>, <<"triggered">>, <<"done", "with">>,
                     <<"over", "it">>, <<"fed", "up">>},
         social |-> {<<"big", "mad">>, <<"so", "done">>, <<"absolutely", "not">>,
                     <<"are", "you", "kidding", "me">>}],
     anxious |->
        [direct |-> {<<"anxious">>, <<"worried">>, <<"nervous">>, <<"stressed">>,
                     <<"panicked">>, <<"uneasy">>, <<"apprehensive">>,
                     <<"tense">>, <<"overwhelmed">>},
         modern |-> {<<"lowkey", "stressed">>, <<"highkey", "worried">>,
                     <<"freaking", "out">>, <<"losing", "it">>},
         social |-> {<<"stress", "levels">>, <<"panic", "mode">>,
                     <<"cant", "handle">>, <<"too", "much">>}],
     fear |->
        [direct |-> {<<"afraid">>, <<"scared">>, <<"terrified">>,
                     <<"frightened">>, <<"fearful">>, <<"petrified">>,
                     <<"horrified">>},
         modern |-> {<<"shook">>, <<"spooked">>, <<"terrifying">>,
                     <<"nightmare", "fuel">>},
         social |-> {<<"so", "scared">>, <<"actually", "terrified">>,
                     <<"worst", "fear">>, <<"heart", "stopped">>}],
     calm |->
        [direct |-> {<<"calm">>, <<"peaceful">>, <<"relaxed">>, <<"serene">>,
                     <<"tranquil">>, <<"content">>, <<"centered">>,
                     <<"balanced">>},
         modern |-> {<<"zen">>, <<"chill">>, <<"good", "vibes">>,
                     <<"at", "peace">>, <<"grounded">>},
         social |-> {<<"feeling", "zen">>, <<"totally", "calm">>,
                     <<"inner", "peace">>, <<"so", "peaceful">>}]]

\* the categories in the order of the dict
PatternOrder == <<"happy", "sad", "mad", "anxious", "fear", "calm">>
Groups == {"direct", "modern", "social"}

\* _pattern_detection: what one trigger found adds, by its group
GroupWeight == [direct |-> 1000, modern |-> 900, social |-> 800]

\* self.intensity_modifiers: level -> phrases
intensity_modifiers ==
    [extreme |-> {<<"literally">>, <<"absolutely">>, <<"completely">>,
                  <<"totally">>, <<"utterly">>, <<"beyond">>,
                  <<"cant", "even">>, <<"so", "much">>, <<"way", "too">>},
     high |-> {<<"really">>, <<"very">>, <<"super">>, <<"hella">>, <<"mad">>,
               <<"lowkey">>, <<"highkey">>, <<"pretty">>, <<"quite">>,
               <<"really", "really">>},
     moderate |-> {<<"kinda">>, <<"sorta">>, <<"somewhat">>, <<"a", "bit">>,
                   <<"a", "little">>, <<"kind", "of">>},
     mild |-> {<<"slightly">>, <<"barely">>, <<"just", "a", "touch">>,
               <<"mildly">>}]

\* the phrases counted a second time, as "modern intensity"
modern_intensity ==
    {<<"literally">>, <<"actually">>, <<"honestly">>, <<"seriously">>, <<"genuinely">>,
     <<"cant", "even">>, <<"so", "much">>, <<"way", "too">>, <<"hella">>, <<"mad">>,
     <<"deadass">>}

\* "pattern in text" looks for the phrase anywhere in the string, inside a
\* word too: these are the words of the texts below that end with, or
\* begin with, a trigger
Suffixes == {<<"unhappy", "happy">>, <<"heartbroken", "broken">>}
Prefixes == {<<"literally", "lit">>}

EndsWith(word, piece) == piece = word \/ <<word, piece>> \in Suffixes
StartsWith(word, piece) == piece = word \/ <<word, piece>> \in Prefixes

\* the phrase lies in the string at word i
PhraseAt(words, i, phrase) ==
    IF Len(phrase) = 1
    THEN EndsWith(words[i], phrase[1]) \/ StartsWith(words[i], phrase[1])
    ELSE /\ EndsWith(words[i], phrase[1])
         /\ StartsWith(words[i + Len(phrase) - 1], phrase[Len(phrase)])
         /\ \A j \in 2..(Len(phrase) - 1) : words[i + j - 1] = phrase[j]

\* pattern in text
HasPhrase(words, phrase) ==
    \E i \in 1..(Len(words) - Len(phrase) + 1) : PhraseAt(words, i, phrase)

\* the journal texts analysed:
\*   ""                                      "   "
\*   "I am so happy"                         "not happy, not amazing"
\*   "not sad just mad"                      "I am happy but sad and heartbroken!!"
\*   "today was okay"                        "LITERALLY cant even!!!"
\*   "so unhappy"
JournalTexts ==
    {[words |-> <<>>, bangs |-> 0, questions |-> 0, caps |-> 0, repeats |-> 0],
     [words |-> <<>>, bangs |-> 0, questions |-> 0, caps |-> 0, repeats |-> 1],
     [words |-> <<"i", "am", "so", "happy">>, bangs |-> 0, questions |-> 0, caps |-> 0, repeats |-> 0],
     [words |-> <<"not", "happy", "not", "amazing">>, bangs |-> 0, questions |-> 0, caps |-> 0, repeats |-> 0],
     [words |-> <<"not", "sad", "just", "mad">>, bangs |-> 0, questions |-> 0, caps |-> 0, repeats |-> 0],
     [words |-> <<"i", "am", "happy", "but", "sad", "and", "heartbroken">>,
      bangs |-> 2, questions |-> 0, caps |-> 0, repeats |-> 0],
     [words |-> <<"today", "was", "okay">>, bangs |-> 0, questions |-> 0, caps |-> 0, repeats |-> 0],
     [words |-> <<"literally", "cant", "even">>, bangs |-> 3, questions |-> 0, caps |-> 1, repeats |-> 1],
     [words |-> <<"so", "unhappy">>, bangs |-> 0, questions |-> 0, caps |-> 0, repeats |-> 0]}

\* the largest value of a non-empty map
MaxValue(scores) ==
    CHOOSE v \in {scores[k] : k \in DOMAIN scores} : \A k \in DOMAIN scores : scores[k] <= v

\* _pattern_detection: the weights of the triggers of one category found
PatternScore(words, emotion) ==
    LET Found(g) == Cardinality({p \in emotion_patterns[emotion][g] : HasPhrase(words, p)})
    IN Found("direct") * GroupWeight["direct"] + Found("modern") * GroupWeight["modern"]
       + Found("social") * GroupWeight["social"]

\* _pattern_detection: the categories with a trigger in the text, each
\* divided by the largest
_pattern_detection(words) ==
    LET found == {e \in Range(PatternOrder) : PatternScore(words, e) > 0}
        raw == [e \in found |-> PatternScore(words, e)]
    IN IF found = {} THEN NoScores
       ELSE [e \in found |-> (raw[e] * One) \div MaxValue(raw)]

\* the labels of the primary model, by the category they are mapped to
bertweet_mapping ==
    [happy |-> {"joy", "optimism", "love", "admiration", "excitement", "gratitude",
                "pride", "caring"},
     sad |-> {"sadness", "pessimism", "grief", "disappointment", "remorse"},
     mad |-> {"anger", "annoyance", "disapproval", "disgust"},
     fear |-> {"fear"},
     anxious |-> {"nervousness", "surprise", "confusion", "desire", "embarrassment"},
     calm |-> {"neutral", "approval", "relief", "trust", "curiosity", "realization"}]

\* the labels of the fallback model
fallback_mapping ==
    [happy |-> {"joy", "love", "optimism"},
     sad |-> {"sadness", "pessimism"},
     mad |-> {"anger", "disgust"},
     fear |-> {"fear"},
     anxious |-> {"surprise"},
     calm |-> {}]

\* pred['label'].lower()
Lower(label) == IF label = "Joy" THEN "joy" ELSE label

\* emotion_mapping.get(label, 'neutral')
MappedEmotion(mapping, label) ==
    IF \E c \in DOMAIN mapping : label \in mapping[c]
    THEN CHOOSE c \in DOMAIN mapping : label \in mapping[c]
    ELSE "neutral"

\* the loop over the predictions, from prediction i on: a pair <<label, score>>
\* raises or lowers nothing but its own category, which keeps its largest score
RECURSIVE MapPredictions(_, _, _, _)
MapPredictions(mapping, predictions, i, emotion_scores) ==
    IF i > Len(predictions) THEN emotion_scores
    ELSE LET mapped_emotion == MappedEmotion(mapping, Lower(predictions[i][1]))
             score == predictions[i][2]
             kept == IF mapped_emotion \in DOMAIN emotion_scores
                     THEN Max(emotion_scores[mapped_emotion], score)
                     ELSE score
         IN MapPredictions(mapping, predictions, i + 1,
                [k \in DOMAIN emotion_scores \cup {mapped_emotion} |->
                    IF k = mapped_emotion THEN kept ELSE emotion_scores[k]])

\* _bertweet_prediction and _fallback_prediction: the call of the model is
\* inside try, and any exception gives the empty dict
Prediction(mapping, classifier) ==
    IF classifier.raised THEN NoScores
    ELSE MapPredictions(mapping, classifier.predictions, 1, NoScores)

_bertweet_prediction(classifier) == Prediction(bertweet_mapping, classifier)
_fallback_prediction(classifier) == Prediction(fallback_mapping, classifier)

\* _combine_predictions
_combine_predictions(bertweet_scores, pattern_scores) ==
    IF bertweet_scores = NoScores THEN pattern_scores
    ELSE IF pattern_scores = NoScores THEN bertweet_scores
    ELSE [emotion \in DOMAIN bertweet_scores \cup DOMAIN pattern_scores |->
            LET bertweet_score == IF emotion \in DOMAIN bertweet_scores
                                  THEN bertweet_scores[emotion] ELSE 0
                pattern_score == IF emotion \in DOMAIN pattern_scores
                                 THEN pattern_scores[emotion] ELSE 0
            IN (bertweet_score * 750 + pattern_score * 250) \div One]

\* the negation patterns of _handle_negations: the words before the
\* captured (\w+); the words of the texts are made of word characters alone
negation_patterns ==
    {<<"not">>, <<"no">>, <<"never">>, <<"don't">>, <<"can't">>, <<"won't">>,
     <<"shouldn't">>, <<"not", "really">>, <<"definitely", "not">>, <<"absolutely", "not">>}

\* the pattern matches at word i: the search is not anchored, so its first
\* word may be the end of a longer one
NegationAt(words, i, negation) ==
    /\ EndsWith(words[i], negation[1])
    /\ \A j \in 2..Len(negation) : words[i + j - 1] = negation[j]

\* re.findall(pattern, text_lower) from word i on: the matches do not overlap
RECURSIVE Captured(_, _, _)
Captured(words, negation, i) ==
    IF i + Len(negation) > Len(words) THEN {}
    ELSE IF NegationAt(words, i, negation)
         THEN {words[i + Len(negation)]} \cup Captured(words, negation, i + Len(negation) + 1)
         ELSE Captured(words, negation, i + 1)

negated_words(words) == UNION {Captured(words, negation, 1) : negation \in negation_patterns}

\* the groups of a category that hold a negated word
NegatedGroups(emotion, negated) ==
    {g \in Groups : \E word \in negated : <<word>> \in emotion_patterns[emotion][g]}

\* emotion_scores[emotion] *= 0.3, k times over
RECURSIVE Suppressed(_, _)
Suppressed(score, k) ==
    IF k = 0 THEN score ELSE Suppressed((score * 300) \div One, k - 1)

\* _handle_negations: one multiplication for every group of the category
\* that holds a negated word
_handle_negations(words, emotion_scores) ==
    [emotion \in DOMAIN emotion_scores |->
        IF emotion \in Range(PatternOrder)
        THEN Suppressed(emotion_scores[emotion],
                        Cardinality(NegatedGroups(emotion, negated_words(words))))
        ELSE emotion_scores[emotion]]

Abs(x) == IF x < 0 THEN -x ELSE x

\* the keys with the largest score
Largest(emotion_scores) ==
    {k \in DOMAIN emotion_scores : emotion_scores[k] = MaxValue(emotion_scores)}

\* max(emotion_scores, key=emotion_scores.get) returns the first of the
\* largest keys in the order of the dict: the order of emotion_patterns for
\* the pattern scores, the order of the predictions for the classifier's,
\* and the order of a set of str, which differs from run to run, for the
\* combined scores
FirstLargest(mapping, predictions, bertweet_scores, pattern_scores, emotion_scores) ==
    IF emotion_scores = NoScores THEN {""}
    ELSE IF bertweet_scores = NoScores
    THEN {PatternOrder[CHOOSE i \in 1..Len(PatternOrder) :
             /\ PatternOrder[i] \in Largest(emotion_scores)
             /\ \A j \in 1..(i - 1) : PatternOrder[j] \notin Largest(emotion_scores)]}
    ELSE IF pattern_scores = NoScores
    THEN {MappedEmotion(mapping, Lower(predictions[CHOOSE i \in 1..Len(predictions) :
             /\ MappedEmotion(mapping, Lower(predictions[i][1])) \in Largest(emotion_scores)
             /\ \A j \in 1..(i - 1) :
                   MappedEmotion(mapping, Lower(predictions[j][1])) \notin Largest(emotion_scores)][1]))}
    ELSE Largest(emotion_scores)

\* a threshold no confidence is under
NeverBelowThreshold(confidence) == FALSE

\* the minimum confidence threshold
BelowThreshold(confidence) == confidence < 200

\* _get_primary_emotion; first is the key max() returns
_get_primary_emotion(emotion_scores, compound, first) ==
    IF emotion_scores = NoScores
    THEN (IF compound >= 300 THEN <<"happy", Abs(compound)>>
          ELSE IF compound <= -300 THEN <<"sad", Abs(compound)>>
          ELSE <<"neutral", 500>>)
    ELSE LET confidence == emotion_scores[first]
         IN IF BelowThreshold(confidence) THEN <<"neutral", confidence>>
            ELSE <<first, confidence>>

\* the largest boost of the modifier levels found in the text
ModifierBoost(words) ==
    LET Found(level) == \E m \in intensity_modifiers[level] : HasPhrase(words, m)
    IN IF Found("extreme") THEN 400
       ELSE IF Found("high") THEN 300
       ELSE IF Found("moderate") THEN 200
       ELSE IF Found("mild") THEN 100
       ELSE 0

\* an intensity that is only kept from falling under 0.1
ClampIntensityNoCeiling(final_intensity) == Max(100, final_intensity)

\* max(0.1, min(1.0, final_intensity))
ClampIntensity(final_intensity) == Max(100, Min(One, final_intensity))

\* _calculate_modern_intensity
_calculate_modern_intensity(text, compound) ==
    LET base_intensity == Abs(compound)
        intensity_boost == ModifierBoost(text.words)
        exclamation_boost == Min(400, text.bangs * 150)
        question_boost == Min(200, text.questions * 100)
        caps_boost == Min(300, text.caps * 150)
        repeat_boost == Min(200, text.repeats * 100)
        modern_boost == Min(200, 50 * Cardinality({p \in modern_intensity : HasPhrase(text.words, p)}))
    IN ClampIntensity(base_intensity + intensity_boost + exclamation_boost + question_boost
                      + caps_boost + repeat_boost + modern_boost)

\* _get_mood_category
_get_mood_category(emotion, intensity, compound) ==
    IF emotion \in {"happy", "calm"}
    THEN (IF intensity >= 700 THEN "very_positive"
          ELSE IF intensity >= 400 THEN "positive" ELSE "neutral")
    ELSE IF emotion \in {"sad", "mad", "anxious", "fear"}
    THEN (IF intensity >= 700 THEN "very_negative"
          ELSE IF intensity >= 400 THEN "negative" ELSE "neutral")
    ELSE (IF compound >= 300 THEN "positive"
          ELSE IF compound <= -300 THEN "negative" ELSE "neutral")

\* round(x, 2) of x thousandths, x not negative
Round2(x) == ((x + 5) \div 10) * 10

\* the processor after __init__: the primary model loaded, or the fallback
\* model, or none
Processors ==
    {[bertweet_model |-> TRUE, fallback_model |-> FALSE],
     [bertweet_model |-> FALSE, fallback_model |-> TRUE],
     [bertweet_model |-> FALSE, fallback_model |-> FALSE]}

\* the mapping of the model that is called
MappingOf(p) == IF p.bertweet_model THEN bertweet_mapping ELSE fallback_mapping

\* what the model may do when called: raise, return nothing, or return
\* predictions, pairs of a label and a score in [0, 1]
ClassifierOutcomes ==
    {[raised |-> TRUE, predictions |-> <<>>],
     [raised |-> FALSE, predictions |-> <<>>],
     [raised |-> FALSE, predictions |-> << <<"Joy", 800>> >>],
     [raised |-> FALSE, predictions |-> << <<"sadness", 150>> >>],
     [raised |-> FALSE, predictions |-> << <<"joy", 600>>, <<"optimism", 900>> >>],
     [raised |-> FALSE, predictions |-> << <<"anger", One>>, <<"joy", One>> >>],
     [raised |-> FALSE, predictions |-> << <<"boredom", 500>> >>]}

\* the compound scores the sentiment scorer may return for a text with words
Compounds == {-One, -300, -299, 0, 299, 300, One}

\* what polarity_scores may do: raise, or return scores with a compound in
\* [-1, 1]; for a text without a word VADER returns 0.0
ScorerOutcomes(text) ==
    {[raised |-> TRUE, compound |-> 0]}
    \cup {[raised |-> FALSE, compound |-> c] :
             c \in IF text.words = <<>> THEN {0} ELSE Compounds}

\* 'bertweet' if self.bertweet_model else ...
analysis_method(p) ==
    IF p.bertweet_model THEN "bertweet"
    ELSE IF p.fallback_model THEN "fallback_distilroberta"
    ELSE "pattern_only"

\* analyze_journal_entry: the dict returned and the values it was built
\* from, or the exception raised.  polarity_scores is called outside any
\* try statement.  first is the key max() returns.
analyze_journal_entry(p, text, scorer, classifier, first) ==
    LET bertweet_emotions == IF p.bertweet_model THEN _bertweet_prediction(classifier)
                             ELSE IF p.fallback_model THEN _fallback_prediction(classifier)
                             ELSE NoScores
        pattern_emotions == _pattern_detection(text.words)
        combined == _combine_predictions(bertweet_emotions, pattern_emotions)
        final_emotions == _handle_negations(text.words, combined)
        primary == _get_primary_emotion(final_emotions, scorer.compound, first)
        intensity == _calculate_modern_intensity(text, scorer.compound)
    IN IF scorer.raised THEN [NoOutcome EXCEPT !.called = TRUE, !.raised = "Exception"]
       ELSE [called |-> TRUE, raised |-> "",
             result |-> [primary_emotion |-> primary[1],
                         intensity |-> Round2(intensity),
                         confidence |-> Round2(primary[2]),
                         emotion_scores |-> [k \in DOMAIN final_emotions |-> Round2(final_emotions[k])],
                         mood_category |-> _get_mood_category(primary[1], intensity, scorer.compound),
                         analysis_method |-> analysis_method(p)],
             bertweet_emotions |-> bertweet_emotions, pattern_emotions |-> pattern_emotions,
             combined |-> combined, final_emotions |-> final_emotions, primary |-> primary]

\* the keys max() may return in a call
FirstKeys(p, text, classifier) ==
    LET bertweet_emotions == IF p.bertweet_model THEN _bertweet_prediction(classifier)
                             ELSE IF p.fallback_model THEN _fallback_prediction(classifier)
                             ELSE NoScores
        pattern_emotions == _pattern_detection(text.words)
    IN FirstLargest(MappingOf(p), classifier.predictions, bertweet_emotions, pattern_emotions,
                    _handle_negations(text.words,
                        _combine_predictions(bertweet_emotions, pattern_emotions)))

\* the call analyze_journal_entry(jin.text) of the processor, with what the
\* scorer and the model do in it
Analyze(first) ==
    /\ ~jres.called
    /\ first \in FirstKeys(processor, jin.text, jin.classifier)
    /\ jres' = analyze_journal_entry(processor, jin.text, jin.scorer, jin.classifier, first)
    /\ UNCHANGED <<processor, jin>>
    /\ UNCHANGED <<affectVars, concVars, memVars, saveVars, apiVars>>

\* a processor, and a journal entry about to be analysed; a processor
\* without a model calls none
InitJournal ==
    /\ processor \in Processors
    /\ jin \in {[text |-> text, scorer |-> scorer, classifier |-> classifier] :
                    text \in JournalTexts,
                    scorer \in UNION {ScorerOutcomes(t) : t \in JournalTexts},
                    classifier \in ClassifierOutcomes}
    /\ jin.scorer \in ScorerOutcomes(jin.text)
    /\ (processor.bertweet_model \/ processor.fallback_model) \/ jin.classifier = NoClassifierCall
    /\ jres = NoOutcome
    /\ lex = NoWeights
    /\ chat = NoTurn

NextJournal ==
    \E first \in Range(PatternOrder) \cup {"", "neutral"} : Analyze(first)

\* the analysis alone: nothing else of the program runs
InitJournalOnly ==
    /\ now = 0
    /\ states = <<>>
    /\ last = [op |-> "init", key |-> NoKey, text |-> NoText]
    /\ held = NoHandle
    /\ pc = [t \in Threads |-> Idle]
    /\ txt = [t \in Threads |-> NoText]
    /\ tmp = [t \in Threads |-> 0]
    /\ cell = NewVector(0)
    /\ start = NewVector(0)
    /\ sessions = <<>>
    /\ file = NoFile
    /\ mlast = NoCall
    /\ out = NoResult
    /\ writers = [t \in Threads |-> NotSaving]
    /\ InitJournal

SpecJournal == InitJournalOnly /\ [][NextJournal]_vars

----------------------------------------------------------------------------
(* C1 *)

InRange(v) == \A i \in 1..Len(Dims) : v[Dims[i]] >= -One /\ v[Dims[i]] <= One

\* C1: after any sequence of update calls with arbitrary texts and elapsed
\* times, starting from the all-zero vector, every one of valence, arousal,
\* dominance and trust returned by get_vector lies in [-1, 1].
C1_AllDimensionsClamped ==
    \A key \in DOMAIN states : InRange(states[key].vector)

\* an update whose sum compound + delta exceeded 1.0 and was clamped, on a
\* vector whose dominance has been driven to the lower clamp bound
C1_Witness ==
    /\ last.op = "update"
    /\ last.text.compound + 100 > One
    /\ "thank you" \in last.text.lowered
    /\ states[last.key].vector.valence = One
    /\ states[last.key].vector.dominance = -One

----------------------------------------------------------------------------
(* C2 *)

\* C2: calling update_from_text(t) twice in immediate succession with no
\* elapsed time leaves all four dimensions after the second call equal to
\* their values after the first call.
C2_UpdateIdempotent ==
    [][(last.op = "update" /\ last' = last /\ now' = now)
          => states'[last.key].vector = states[last.key].vector]_vars

----------------------------------------------------------------------------
(* C3 *)

\* what a caller may store into the mapping it was handed: trust = 0.5
CallerDims == {"trust"}
CallerValues == {500}

NextHandle ==
    \/ \E key \in Keys, text \in Texts : Update(key, text)
    \/ \E key \in Keys : GetVectorKeep(key)
    \/ \E dim \in CallerDims, value \in CallerValues : CallerWrite(dim, value)

SpecHandle == Init /\ [][NextHandle]_vars

\* C3: get_vector returns a snapshot: the mapping a caller obtained still
\* holds what the caller saw in it after any later update of that key, and a
\* caller writing into the mapping changes nothing in the registry.
C3_GetVectorSnapshot ==
    [][/\ (held' # NoHandle => Deref(states', held'.handle) = held'.seen)
       /\ (last'.op = "caller_write" => states' = states)]_vars

----------------------------------------------------------------------------
(* C4 *)

\* the vector after update(x) and then update(y), each run alone
Serial(av, x, y) == update_from_text(update_from_text(av, x, now), y, now).vector

\* C4: two concurrent updates of one key are serialized: once both have
\* returned the vector is what the two updates give run one after the other
\* in some order, and at no moment does the vector a concurrent get_vector
\* would read hold a dimension outside [-1, 1].
C4_UpdatesSerialized ==
    /\ InRange(cell.vector)
    /\ (\A t \in Threads : Done(t)) =>
          cell.vector \in {Serial(start, txt["A"], txt["B"]), Serial(start, txt["B"], txt["A"])}

----------------------------------------------------------------------------
(* C5 *)

Saves == {"save", "save_affect_score"}
Clears == {"clear", "clear_all"}

IsPrefix(a, b) == Len(a) <= Len(b) /\ SubSeq(b, 1, Len(a)) = a

\* C5: the memory log is append-only per session: a step that is no clear
\* and no clear_all leaves every session's entry sequence as it was, except
\* that a save to a session adds exactly one entry at that session's end.
C5_AppendOnly ==
    [][mlast'.op \notin Clears =>
         \A s \in SessionIds :
            LET old == Records(sessions, s)
                new == Records(sessions', s)
            IN IF mlast'.op \in Saves /\ mlast'.session = s
               THEN Len(new) = Len(old) + 1 /\ IsPrefix(old, new)
               ELSE new = old]_vars

\* a second entry, different from the first, was just appended to a session
C5_Witness ==
    /\ mlast.op = "save"
    /\ Len(Records(mlast.pre, mlast.session)) = 1
    /\ Len(Records(sessions, mlast.session)) = 2
    /\ sessions[mlast.session][1] # sessions[mlast.session][2]

----------------------------------------------------------------------------
(* C6 *)

\* C6: write-through persistence: after every completed save, clear or
\* clear_all the content of the memory file is the dump of the in-memory
\* session table, and loading it gives that table back.
C6_WriteThrough ==
    mlast.op \in Saves \cup Clears =>
        /\ file = json_dump(sessions)
        /\ Construct(file) = sessions

\* a clear has just been written through while another session holds entries
C6_Witness ==
    /\ mlast.op = "clear"
    /\ Len(Records(mlast.pre, mlast.session)) >= 1
    /\ file.kind = "object"
    /\ \E m \in file.members : m[1] = mlast.session /\ m[2] = <<>>
    /\ \E m \in file.members : m[1] # mlast.session /\ Len(m[2]) >= 1

----------------------------------------------------------------------------
(* C7 *)

\* C7: restart round trip: a Memory_Store constructed from the persisted
\* file after a restart returns from get_recent(limit=N, session) the same
\* entries, with the same fields and in the same order, as the store did
\* before the restart.
C7_RestartRoundTrip ==
    [][mlast'.op = "restart" =>
         \A s \in SessionIds, n \in 0..MaxLimit, speaker \in SpeakerArgs, tf \in TagFilterArgs :
            get_recent(sessions', n, s, speaker, tf) = get_recent(sessions, n, s, speaker, tf)]_vars

\* a restart over a file written by this run, with two entries in one session
C7_Witness ==
    /\ mlast.op = "restart"
    /\ file.kind = "object"
    /\ \E s \in SessionIds : Len(get_recent(sessions, 2, s, "", <<>>)) = 2

----------------------------------------------------------------------------
(* C8 *)

\* an entry passes the filters of get_recent
Passes(e, speaker, tag_filter) ==
    /\ speaker = "" \/ e.speaker = speaker
    /\ tag_filter = <<>> \/ \E t \in Range(tag_filter) : t \in Range(e.tags)

\* the min(limit, m) most recent of the m entries that pass, oldest first
MostRecent(records, limit, speaker, tag_filter) ==
    LET m == SelectSeq(records, LAMBDA e : Passes(e, speaker, tag_filter))
        n == Min(limit, Len(m))
    IN SubSeq(m, Len(m) - n + 1, Len(m))

\* C8: get_recent returns, for every non-negative limit (0 included),
\* exactly the min(limit, m) most recent entries among the m that pass the
\* filters, oldest first; it never returns more than limit entries.
C8_GetRecentExact ==
    mlast.op = "get_recent" =>
        out.entries = MostRecent(Records(sessions, mlast.session), mlast.limit,
                                 mlast.speaker, mlast.tag_filter)

----------------------------------------------------------------------------
(* C9 *)

\* the tags counted: one that save callers pass, one save_affect_score writes
CountedTags == {FlagTag, <<"affect", "trust", "kai", "0.42">>}

\* C9 as stated: count_tag(t, s) never decreases from one step to the next
\* except at a clear(s) step, immediately after which it is 0.
C9_CountMonotoneExceptClear ==
    [][\A t \in CountedTags, s \in SessionIds :
          \/ count_tag(sessions', t, s) >= count_tag(sessions, t, s)
          \/ /\ mlast'.op = "clear"
             /\ mlast'.session = s
             /\ count_tag(sessions', t, s) = 0]_vars

\* C9 amended: count_tag(t, s) never decreases from one step to the next
\* except at a clear(s) or a clear_all step, immediately after which it is 0.
C9_CountMonotoneExceptClears ==
    [][\A t \in CountedTags, s \in SessionIds :
          \/ count_tag(sessions', t, s) >= count_tag(sessions, t, s)
          \/ /\ \/ mlast'.op = "clear" /\ mlast'.session = s
                \/ mlast'.op = "clear_all"
             /\ count_tag(sessions', t, s) = 0]_vars

\* clear_all has just taken a session's count of flagged entries from 2 to 0
C9_Witness ==
    /\ mlast.op = "clear_all"
    /\ \E s \in SessionIds :
          /\ count_tag(mlast.pre, FlagTag, s) = 2
          /\ count_tag(sessions, FlagTag, s) = 0

----------------------------------------------------------------------------
(* C10 *)

\* get_recent on the session returns the empty sequence for every limit and filter
AllEmpty(tbl, s) ==
    \A n \in 0..MaxLimit, speaker \in SpeakerArgs, tf \in TagFilterArgs :
        get_recent(tbl, n, s, speaker, tf) = <<>>

\* C10: after clear(session) get_recent for that session returns the empty
\* sequence for every limit and filter, whatever had been saved before, and
\* this remains so until the next save to that session.
C10_EmptyAfterClear ==
    [][\A s \in SessionIds :
          /\ (mlast'.op = "clear" /\ mlast'.session = s) => AllEmpty(sessions', s)
          /\ (AllEmpty(sessions, s) /\ ~(mlast'.op \in Saves /\ mlast'.session = s))
                => AllEmpty(sessions', s)]_vars

\* clear has just emptied a session that held two entries
C10_Witness ==
    /\ mlast.op = "clear"
    /\ Len(Records(mlast.pre, mlast.session)) = 2
    /\ AllEmpty(sessions, mlast.session)

----------------------------------------------------------------------------
(* C11 *)

WellFormedTrustTag(tag) ==
    Len(tag) = 4 /\ tag[1] = "affect" /\ tag[2] = "trust" /\ IsNumeral(tag[4])

MalformedTrustTag(tag) ==
    Len(tag) >= 3 /\ tag[1] = "affect" /\ tag[2] = "trust" /\ ~WellFormedTrustTag(tag)

\* the (timestamp, score) pairs of the well-formed trust tags, oldest entry first
RECURSIVE TrustPairs(_, _)
TrustPairs(records, speaker) ==
    IF records = <<>> THEN <<>>
    ELSE LET e == records[Len(records)]
             good == SelectSeq(e.tags, WellFormedTrustTag)
             mine == IF speaker = "" \/ e.speaker = speaker
                     THEN [i \in 1..Len(good) |-> <<e.timestamp, NumeralValue(good[i][4])>>]
                     ELSE <<>>
         IN TrustPairs(SubSeq(records, 1, Len(records) - 1), speaker) \o mine

\* C11: get_trust_history returns, in entry order, one (timestamp, score)
\* pair for every four-part affect:trust tag with a numeric score on the
\* entries that pass the speaker filter; a malformed affect:trust tag is
\* skipped and the call does not raise.
C11_TrustHistorySkipsMalformed ==
    mlast.op = "get_trust_history" =>
        /\ out.raised = ""
        /\ out.history = TrustPairs(Records(sessions, mlast.session), mlast.speaker)

\* a history of two scores read from a session that also holds malformed tags
C11_Witness ==
    /\ mlast.op = "get_trust_history"
    /\ Len(out.history) = 2
    /\ out.history[1][2] # out.history[2][2]
    /\ \E i \in 1..Len(Records(sessions, mlast.session)) :
           \E t \in Range(Records(sessions, mlast.session)[i].tags) : MalformedTrustTag(t)

----------------------------------------------------------------------------
(* C12 *)

\* C12: when the write to the file fails during save, save raises to its
\* caller, and the new entry is the last one of the in-memory session, so
\* that get_recent on the same store returns it.
C12_FailedWriteKeepsEntry ==
    (mlast.op = "save" /\ file # json_dump(sessions)) =>
        /\ out.raised = "OSError"
        /\ Records(sessions, mlast.session) = Append(Records(mlast.pre, mlast.session), mlast.entry)
        /\ get_recent(sessions, 1, mlast.session, "", <<>>) = <<mlast.entry>>
        /\ mlast.entry \in Range(get_recent(sessions, 0, mlast.session, mlast.entry.speaker, <<>>))

\* a save whose write broke off after the file had been emptied, on a
\* session that already held an entry
C12_Witness ==
    /\ mlast.op = "save"
    /\ out.raised = "OSError"
    /\ file = Truncated
    /\ Len(Records(mlast.pre, mlast.session)) = 1
    /\ Len(get_recent(sessions, MaxLimit, mlast.session, "", <<>>)) = 2

----------------------------------------------------------------------------
(* C13 *)

\* C13: when two save calls for the same session run concurrently, both
\* entries are in the in-memory sequence and, once both calls have
\* returned, the file is a well-formed table that holds both entries in
\* the order they have in memory.
C13_ConcurrentSavesPersisted ==
    (/\ \A t \in Threads : InSave(t, "returned")
     /\ \A t, u \in Threads : writers[t].session = writers[u].session) =>
        /\ \A t \in Threads : writers[t].entry \in Range(Records(sessions, writers[t].session))
        /\ WellFormed(file)
        /\ Construct(file) = sessions

----------------------------------------------------------------------------
(* C14 *)

\* the call returned a dict
Returned == jres.called /\ jres.raised = ""

\* C14: for every text, every scorer output in its ranges and every
\* classifier output with scores in [0, 1], the result of
\* analyze_journal_entry has its intensity in [0.1, 1.0] and its confidence
\* in [0, 1].
C14_IntensityAndConfidenceInRange ==
    Returned =>
        /\ jres.result.intensity >= 100 /\ jres.result.intensity <= One
        /\ jres.result.confidence >= 0 /\ jres.result.confidence <= One

\* a shouted text with the strongest sentiment: the boosts add up to more
\* than 1.0 and the intensity returned is 1.0
C14_Witness ==
    /\ Returned
    /\ jin.scorer.compound = One
    /\ jin.text.bangs = 3
    /\ ModifierBoost(jin.text.words) = 400
    /\ jres.result.intensity = One
    /\ jres.result.confidence = One

----------------------------------------------------------------------------
(* C15 *)

\* C15: fusion: a category scored by both sources gets
\* classifier*0.75 + lexicon*0.25, a category scored by one source alone
\* gets that source's score unscaled, also when the other source scored
\* other categories, and a category scored by neither is absent.
C15_FusionRule ==
    Returned =>
        LET b == jres.bertweet_emotions
            p == jres.pattern_emotions
            fused == jres.combined
        IN /\ DOMAIN fused = DOMAIN b \cup DOMAIN p
           /\ \A c \in DOMAIN fused :
                 fused[c] = IF c \in DOMAIN b /\ c \in DOMAIN p
                            THEN (b[c] * 750 + p[c] * 250) \div One
                            ELSE IF c \in DOMAIN b THEN b[c]
                            ELSE p[c]

----------------------------------------------------------------------------
(* C16 *)

\* the triggers of a category, of all its groups
Triggers(c) == UNION {emotion_patterns[c][g] : g \in Groups}

\* C16: negation multiplies the fused score of a category by 0.3 exactly
\* once when a captured negated word is one of its triggers, however many
\* of its triggers or groups are negated, never makes it zero, and leaves
\* the score of every other category as it was.
C16_NegationOnce ==
    Returned =>
        \A c \in DOMAIN jres.combined :
            jres.final_emotions[c] =
                IF /\ c \in Range(PatternOrder)
                   /\ \E w \in negated_words(jin.text.words) : <<w>> \in Triggers(c)
                THEN (jres.combined[c] * 300) \div One
                ELSE jres.combined[c]

----------------------------------------------------------------------------
(* C17 *)

\* C17: with a fused map that is not empty the primary emotion is a
\* category with the largest fused score and the confidence is that score,
\* except that under 0.2 the primary emotion is 'neutral' with that score
\* as confidence; with an empty fused map the primary emotion comes from
\* the compound alone: 'happy' from 0.3 up, 'sad' from -0.3 down, else
\* 'neutral' with confidence 0.5.
C17_PrimaryEmotion ==
    Returned =>
        LET fused == jres.final_emotions
            compound == jin.scorer.compound
            chosen == jres.primary
        IN /\ jres.result.primary_emotion = chosen[1]
           /\ jres.result.confidence = Round2(chosen[2])
           /\ IF fused # NoScores
              THEN IF MaxValue(fused) < 200
                   THEN chosen = <<"neutral", MaxValue(fused)>>
                   ELSE /\ chosen[1] \in DOMAIN fused
                        /\ fused[chosen[1]] = MaxValue(fused)
                        /\ chosen[2] = MaxValue(fused)
              ELSE /\ compound >= 300 => chosen[1] = "happy"
                   /\ compound <= -300 => chosen[1] = "sad"
                   /\ (compound > -300 /\ compound < 300) => chosen = <<"neutral", 500>>

\* a fused map whose largest score is under the threshold
C17_Witness ==
    /\ Returned
    /\ jres.final_emotions # NoScores
    /\ MaxValue(jres.final_emotions) < 200
    /\ jres.result.primary_emotion = "neutral"
    /\ jres.result.confidence = Round2(MaxValue(jres.final_emotions))

----------------------------------------------------------------------------
(* C18 *)

\* C18: analyze_journal_entry never lets an exception out when the
\* sentiment scorer or the classifier raises: it returns a well-formed
\* result built from the sources that succeeded.
C18_NoExceptionPropagates ==
    jres.called =>
        /\ jres.raised = ""
        /\ jres.result.primary_emotion # ""
        /\ jres.result.analysis_method # ""

----------------------------------------------------------------------------
(* C19 *)

\* C19: the method field names the sources that contributed: when the
\* classifier is loaded and its call fails, or returns nothing, the method
\* reported is the one without the classifier.
C19_MethodNamesSources ==
    (Returned /\ (jin.classifier.raised \/ jin.classifier.predictions = <<>>)) =>
        jres.result.analysis_method = "pattern_only"

----------------------------------------------------------------------------
(* C20 *)

\* C20: for the empty string and for a text of white space alone
\* analyze_journal_entry returns, without raising, primary_emotion
\* 'neutral' and mood_category 'neutral', with a classifier loaded or not.
C20_EmptyTextNeutral ==
    (jres.called /\ jin.text.words = <<>> /\ ~jin.scorer.raised) =>
        /\ jres.raised = ""
        /\ jres.result.primary_emotion = "neutral"
        /\ jres.result.mood_category = "neutral"

----------------------------------------------------------------------------
(* C21 *)

\* C21: the intensity before clamping is |compound| plus the increment of
\* the highest modifier tier in the text plus the four capped contributions
\* of exclamation marks, question marks, words in capitals and runs of
\* repeated characters, and nothing else; the intensity reported is that
\* sum clamped to [0.1, 1.0].
C21_IntensityComposition ==
    Returned =>
        jres.result.intensity =
            Round2(Max(100, Min(One,
                Abs(jin.scorer.compound) + ModifierBoost(jin.text.words)
                + Min(400, jin.text.bangs * 150) + Min(200, jin.text.questions * 100)
                + Min(300, jin.text.caps * 150) + Min(200, jin.text.repeats * 100))))

----------------------------------------------------------------------------
(* C25 *)

\* self.states[key].decay(): the method called on a registered vector
Decay(key) ==
    /\ key \in DOMAIN states
    /\ states' = [states EXCEPT ![key] = decay(states[key], now)]
    /\ last' = [op |-> "decay", key |-> key, text |-> NoText]
    /\ UNCHANGED <<now, held>>
    /\ UNCHANGED <<concVars, memVars, saveVars, journalVars, apiVars>>

NextDecay ==
    \/ Tick
    \/ \E key \in Keys, text \in Texts : Update(key, text)
    \/ \E key \in Keys : Decay(key)

SpecDecay == Init /\ [][NextDecay]_vars

\* C25: decay multiplies valence and trust by 0.9 and sets last_update to
\* the current time exactly when more than 86400 seconds have passed since
\* last_update; it never changes arousal or dominance, and when 24 hours or
\* less have passed it leaves the whole vector and last_update as they were.
C25_DecayFrame ==
    [][last'.op = "decay" =>
          LET before == states[last'.key]
              after == states'[last'.key]
          IN /\ after.vector.arousal = before.vector.arousal
             /\ after.vector.dominance = before.vector.dominance
             /\ IF now - before.last_update > 86400
                THEN /\ after.vector.valence = (before.vector.valence * 9) \div 10
                     /\ after.vector.trust = (before.vector.trust * 9) \div 10
                     /\ after.last_update = now
                ELSE after = before]_vars

\* a decay that fired a day and a second after the vector was updated to
\* valence 1.0, arousal 0.9, trust 0.97
C25_Witness ==
    /\ last.op = "decay"
    /\ now = DecayAfter + 1
    /\ states[last.key].last_update = now
    /\ states[last.key].vector = [valence |-> 900, arousal |-> 900, dominance |-> 0, trust |-> 873]

\* a decay called exactly 24 hours after last_update, on a vector that is
\* not zero: nothing changes
C25_WitnessBoundary ==
    /\ last.op = "decay"
    /\ now = DecayAfter
    /\ states[last.key].last_update = 0
    /\ states[last.key].vector.valence = One

----------------------------------------------------------------------------
(* C26 *)

\* the time between two calls of update: none, twelve hours, or twelve
\* hours and a second
IdleElapsed == {0, DecayAfter \div 2, DecayAfter \div 2 + 1}

\* the clock advances by e and Affect_State.update(text, session_id,
\* persona) is called: last is then the call made at the clock value now
UpdateAfter(key, text, e) ==
    /\ now + e <= MaxTicks * (DecayAfter + 1)
    /\ now' = now + e
    /\ LET st == Fetch(states, key, now')
       IN states' = [st EXCEPT ![key] = update_from_text(st[key], text, now')]
    /\ last' = [op |-> "update", key |-> key, text |-> text]
    /\ UNCHANGED held
    /\ UNCHANGED <<concVars, memVars, saveVars, journalVars, apiVars>>

NextIdle == \E key \in Keys, text \in Texts, e \in IdleElapsed : UpdateAfter(key, text, e)

SpecIdle == Init /\ [][NextIdle]_vars

\* C26: decay is triggered only by inactivity: when update_from_text was
\* last called on a vector less than 24 hours ago, the next update_from_text
\* on it applies no decay (last_update keeps its value), however long ago
\* the vector was created or last decayed.
C26_DecayOnlyAfterInactivity ==
    [][(/\ last.op = "update"
        /\ last'.op = "update"
        /\ last'.key = last.key
        /\ now' - now < DecayAfter)
          => states'[last.key].last_update = states[last.key].last_update]_vars

----------------------------------------------------------------------------
(* C27 *)

\* what update_from_text(text) leaves in a vector that was all zero and
\* just created
OnFresh(text) == update_from_text(NewVector(now), text, now).vector

\* C27: for every prior state of the vector and every elapsed time,
\* valence, arousal and trust after update_from_text(t) depend only on t:
\* they are what the same call leaves in a new vector; dominance is the
\* only dimension whose value after the call depends on its value before.
C27_OverwriteSemantics ==
    last.op = "update" =>
        /\ states[last.key].vector.valence = OnFresh(last.text).valence
        /\ states[last.key].vector.arousal = OnFresh(last.text).arousal
        /\ states[last.key].vector.trust = OnFresh(last.text).trust

\* an update with a text without keywords, after the clock had advanced, on
\* a vector two earlier updates had lowered the dominance of: valence,
\* arousal and trust are the text's, and dominance is what the earlier
\* calls left, not the 0 the call leaves in a new vector
C27_Witness ==
    /\ last.op = "update"
    /\ last.text.name = "hello"
    /\ states[last.key].last_update > 0
    /\ states[last.key].vector.valence = 0
    /\ states[last.key].vector.trust = 0
    /\ states[last.key].vector.dominance = -200
    /\ OnFresh(last.text).dominance = 0

----------------------------------------------------------------------------
(* C28 *)

\* C28: a vector for a (session_id, persona) pair is created only by the
\* first update: get_vector on a pair that was never updated returns the
\* all-zero vector and adds no entry to the registry, so the number of
\* registered vectors stays the number of distinct pairs updated.
C28_GetVectorAddsNoEntry ==
    [][last'.op = "get_vector" =>
          /\ states'[last'.key].vector = ZeroVector \/ last'.key \in DOMAIN states
          /\ DOMAIN states' = DOMAIN states]_vars

----------------------------------------------------------------------------
(* C29 *)

\* a process is running and holds a Memory_Store
StoreAlive == mlast.op # "crash" /\ out.raised = ""

\* Memory_Store.save, the process stopping inside _persist: open("w") has
\* emptied the file and json.dump has not written the whole table.  The
\* process and its table are gone; the call's record keeps the table of the
\* saves that had completed.
CrashInSave(speaker, message, emotion, tags, session_id) ==
    /\ StoreAlive
    /\ TotalEntries(sessions) < MaxEntries
    /\ file' = PersistOutcome(file, sessions, "write").file
    /\ sessions' = <<>>
    /\ mlast' = [CallRecord("crash", session_id)
                    EXCEPT !.entry = [timestamp |-> now, speaker |-> speaker, message |-> message,
                                      emotion |-> emotion, tags |-> tags]]
    /\ out' = NoResult
    /\ UNCHANGED <<affectVars, concVars, saveVars, journalVars, apiVars>>

\* a new process constructs Memory_Store() over whatever file the last one
\* left: _load runs json.load outside any try statement, so a file that
\* holds no complete JSON document makes the constructor raise
RestartAfterStop ==
    /\ sessions' = IF Loadable(file) THEN Construct(file) ELSE <<>>
    /\ mlast' = [CallRecord("restart", "")
                    EXCEPT !.pre = IF mlast.op = "crash" THEN mlast.pre ELSE sessions]
    /\ out' = [NoResult EXCEPT !.raised = IF Loadable(file) THEN "" ELSE "JSONDecodeError"]
    /\ UNCHANGED file
    /\ UNCHANGED <<affectVars, concVars, saveVars, journalVars, apiVars>>

NextCrash ==
    \/ \E args \in SaveArgs, message \in Messages, emotion \in Emotions,
          session_id \in SessionIds :
          StoreAlive /\ Save(args[1], message, emotion, args[2], session_id)
    \/ \E session_id \in SessionIds : StoreAlive /\ Clear(session_id)
    \/ \E args \in SaveArgs, message \in Messages, emotion \in Emotions,
          session_id \in SessionIds :
          CrashInSave(args[1], message, emotion, args[2], session_id)
    \/ RestartAfterStop

SpecCrash == InitMem /\ [][NextCrash]_vars

\* C29: when the process stops partway through a persistence write, after
\* the file was opened for writing and before the whole table was written,
\* a restart still constructs a Memory_Store and reloads every entry whose
\* save had completed before the interrupted write.
C29_CrashConsistency ==
    mlast.op = "restart" =>
        /\ out.raised = ""
        /\ \A session_id \in DOMAIN mlast.pre :
              Records(sessions, session_id) = mlast.pre[session_id]

----------------------------------------------------------------------------
(* C23 *)

\* the groups of category c with a trigger in the text
MatchedGroups(words, c) ==
    {g \in Groups : \E p \in emotion_patterns[c][g] : HasPhrase(words, p)}

\* the largest weight of a single matched trigger of category c
MaxTriggerWeight(words, c) ==
    CHOOSE w \in {GroupWeight[g] : g \in MatchedGroups(words, c)} :
        \A g \in MatchedGroups(words, c) : GroupWeight[g] <= w

\* C23: the lexicon scores the engine feeds into fusion follow the lexicon
\* scorer's contract: a category is scored when one of its triggers is in
\* the text, its score is the largest weight of any single matched trigger
\* (more matched triggers of the category do not change it), and it is not
\* rescaled relative to the scores of the other categories.
C23_FusionLexiconScores ==
    Returned =>
        /\ DOMAIN jres.pattern_emotions =
              {c \in Range(PatternOrder) : MatchedGroups(jin.text.words, c) # {}}
        /\ \A c \in DOMAIN jres.pattern_emotions :
              jres.pattern_emotions[c] = MaxTriggerWeight(jin.text.words, c)

----------------------------------------------------------------------------
(* emotion_weights.py: the lexicon scorer *)
(*                                                                         *)
(* A text is the tuple of its space-separated words; a keyword is the      *)
(* tuple of its words, with its weight in thousandths.                     *)

\* the most words of a text passed to get_emotion_weights
MaxWords == 3

\* category -> its keywords and their weights, in the dict's order
EMOTION_KEYWORDS ==
    [sadness |-> <<
        << <<"sad">>, 600>>, << <<"depressed">>, 900>>, << <<"cry">>, 800>>,
        << <<"tear">>, 700>>, << <<"heartbroken">>, 900>>,
        << <<"grief">>, 900>>, << <<"hurt">>, 700>>, << <<"aching">>, 700>> >>,
     loneliness |-> <<
        << <<"lonely">>, 900>>, << <<"alone">>, 800>>, << <<"isolated">>, 800>>,
        << <<"ignored">>, 700>>, << <<"abandoned">>, 900>>,
        << <<"unseen">>, 700>>, << <<"unloved">>, 800>> >>,
     anxiety |-> <<
        << <<"anxious">>, 800>>, << <<"nervous">>, 600>>, << <<"panic">>, 900>>,
        << <<"worry">>, 600>>, << <<"overwhelmed">>, 700>>,
        << <<"stressed">>, 700>>, << <<"uneasy">>, 500>> >>,
     emptiness |-> <<
        << <<"empty">>, 900>>, << <<"numb">>, 800>>, << <<"hollow">>, 900>>,
        << <<"void">>, 700>>, << <<"flat">>, 500>>,
        << <<"disconnected">>, 700>> >>,
     anger |-> <<
        << <<"angry">>, 700>>, << <<"mad">>, 600>>, << <<"furious">>, 900>>,
        << <<"rage">>, 900>>, << <<"pissed">>, 800>>, << <<"resentful">>, 700>>,
        << <<"frustrated">>, 700>> >>,
     shame |-> <<
        << <<"ashamed">>, 900>>, << <<"guilty">>, 800>>,
        << <<"worthless">>, 900>>, << <<"embarrassed">>, 600>>,
        << <<"disgraced">>, 800>>, << <<"humiliated">>, 900>> >>,
     fear |-> <<
        << <<"afraid">>, 700>>, << <<"scared">>, 800>>,
        << <<"terrified">>, 1000>>, << <<"fear">>, 600>>,
        << <<"worried">>, 500>>, << <<"hesitant">>, 400>> >>,
     joy |-> <<
        << <<"happy">>, 600>>, << <<"joyful">>, 800>>, << <<"grateful">>, 700>>,
        << <<"smiling">>, 500>>, << <<"laughing">>, 600>>,
        << <<"peaceful">>, 700>> >>,
     hope |-> <<
        << <<"hopeful">>, 800>>, << <<"relieved">>, 700>>,
        << <<"encouraged">>, 600>>, << <<"uplifted">>, 600>>,
        << <<"believe">>, 500>>, << <<"faith">>, 600>> >>,
     love |-> <<
        << <<"loved">>, 800>>, << <<"cared">>, 600>>, << <<"held">>, 700>>,
        << <<"safe">>, 600>>, << <<"cherished">>, 800>>,
        << <<"connected">>, 700>> >>,
     confusion |-> <<
        << <<"confused">>, 700>>, << <<"lost">>, 800>>, << <<"unsure">>, 600>>,
        << <<"disoriented">>, 700>>, << <<"uncertain">>, 500>>,
        << <<"foggy">>, 500>> >>,
     longing |-> <<
        << <<"miss">>, 700>>, << <<"yearn">>, 800>>, << <<"crave">>, 700>>,
        << <<"aching", "for">>, 900>>, << <<"wish">>, 600>>,
        << <<"nostalgic">>, 600>> >>]

\* the words of the texts: "unhappy" holds the keyword "happy", and
\* "aching" followed by "for" makes the keyword "aching for"
LexWords == {"sad", "SAD", "heartbroken", "hurt", "unhappy", "aching", "for"}

LexTexts == UNION {[1..n -> LexWords] : n \in 0..MaxWords}

\* str.lower, word by word
LowerWord(word) == IF word = "SAD" THEN "sad" ELSE word
LowerText(words) == [i \in 1..Len(words) |-> LowerWord(words[i])]

\* a scorer that adds the weight of every keyword found
AddWeight(score, weight) == score + weight

\* score = max(score, weight)
KeepLargest(score, weight) == Max(score, weight)

\* for word, weight in keywords.items(): if word in text, from keyword i on
RECURSIVE ScanKeywords(_, _, _, _)
ScanKeywords(text, keywords, i, score) ==
    IF i > Len(keywords) THEN score
    ELSE ScanKeywords(text, keywords, i + 1,
             IF HasPhrase(text, keywords[i][1])
             THEN KeepLargest(score, keywords[i][2])
             ELSE score)

\* get_emotion_weights: the categories with a score above 0, each rounded
\* to two decimals
get_emotion_weights(words) ==
    LET text == LowerText(words)
        score == [c \in DOMAIN EMOTION_KEYWORDS |-> ScanKeywords(text, EMOTION_KEYWORDS[c], 1, 0)]
    IN [c \in {e \in DOMAIN EMOTION_KEYWORDS : score[e] > 0} |-> Round2(score[c])]

\* get_emotion_weights(text) is called, once
GetEmotionWeights ==
    /\ ~lex.called
    /\ lex' = [lex EXCEPT !.called = TRUE, !.weights = get_emotion_weights(lex.words)]
    /\ UNCHANGED chat
    /\ UNCHANGED <<affectVars, concVars, memVars, saveVars, journalVars>>

InitLexicon ==
    /\ now = 0
    /\ states = <<>>
    /\ last = [op |-> "init", key |-> NoKey, text |-> NoText]
    /\ held = NoHandle
    /\ pc = [t \in Threads |-> Idle]
    /\ txt = [t \in Threads |-> NoText]
    /\ tmp = [t \in Threads |-> 0]
    /\ cell = NewVector(0)
    /\ start = NewVector(0)
    /\ sessions = <<>>
    /\ file = NoFile
    /\ mlast = NoCall
    /\ out = NoResult
    /\ writers = [t \in Threads |-> NotSaving]
    /\ processor = NotLoaded
    /\ jin = NoInput
    /\ jres = NoOutcome
    /\ lex \in {[NoWeights EXCEPT !.words = words] : words \in LexTexts}
    /\ chat = NoTurn

NextLexicon == GetEmotionWeights

SpecLexicon == InitLexicon /\ [][NextLexicon]_vars

----------------------------------------------------------------------------
(* C22 *)

\* the weights of the keywords of category c that lie in the lowercased text
WeightsFound(words, c) ==
    {k[2] : k \in {x \in Range(EMOTION_KEYWORDS[c]) : HasPhrase(LowerText(words), x[1])}}

\* C22: get_emotion_weights(text): for every text and every category, the
\* category's score is the largest weight among the category's trigger
\* phrases that are substrings of the lowercased text, never their sum; the
\* category is a key of the result only if that maximum is above 0; a text
\* without a trigger gives the empty map; and the call never raises.
C22_LexiconScorer ==
    lex.called =>
        /\ lex.raised = ""
        /\ DOMAIN lex.weights = {c \in DOMAIN EMOTION_KEYWORDS : WeightsFound(lex.words, c) # {}}
        /\ \A c \in DOMAIN lex.weights :
              /\ lex.weights[c] \in WeightsFound(lex.words, c)
              /\ \A w \in WeightsFound(lex.words, c) : w <= lex.weights[c]
              /\ lex.weights[c] > 0
        /\ ((\A c \in DOMAIN EMOTION_KEYWORDS : WeightsFound(lex.words, c) = {})
               => lex.weights = NoScores)

\* "SAD heartbroken hurt": three sadness keywords of weights 0.6, 0.9 and
\* 0.7 are in the lowercased text and the score is 0.9
C22_Witness ==
    /\ lex.called
    /\ lex.words = <<"SAD", "heartbroken", "hurt">>
    /\ WeightsFound(lex.words, "sadness") = {600, 700, 900}
    /\ lex.weights = [sadness |-> 900]

\* "for for": no keyword is in the text and the map is empty
C22_WitnessEmpty ==
    /\ lex.called
    /\ lex.words = <<"for", "for">>
    /\ lex.weights = NoScores

----------------------------------------------------------------------------
(* persona_api.py: the chat handler, websocket_endpoint *)
(*                                                                         *)
(* One action is one pass of the handler's loop for one message received.  *)
(* Nothing between the message's validation and the last save awaits, so   *)
(* the passes of different connections do not interleave.  The storage     *)
(* works: no save raises.                                                  *)

\* how many messages the handler receives
MaxTurns == 3

\* the sessions of the connections, manager.user_sessions
ChatSessions == {"s1", "s2"}

\* the persona registry: speaker and default_tone
PERSONAS ==
    [eden |-> [speaker |-> "eden", default_tone |-> "calm"],
     kai |-> [speaker |-> "kai", default_tone |-> "soft"]]

\* the personas the messages are addressed to
ChatPersonas == {"kai"}

\* the terms of TERMS that lie in the messages below
TERMS == {"porn"}

\* the messages received: the prefix re.sub strips, the words after it, the
\* sentiment scorer's output for those words and the keywords of
\* keyword_modifiers in them:
\*   "send me porn"    "i am sad"    "Kai: i am sad"    "Kai:"
ChatInputs ==
    {[prefix |-> "", words |-> <<"send", "me", "porn">>,
      compound |-> 0, pos |-> 0, neg |-> 0, lowered |-> {}],
     [prefix |-> "", words |-> <<"i", "am", "sad">>,
      compound |-> -477, pos |-> 0, neg |-> 756, lowered |-> {}],
     [prefix |-> "Kai:", words |-> <<"i", "am", "sad">>,
      compound |-> -477, pos |-> 0, neg |-> 756, lowered |-> {}],
     [prefix |-> "Kai:", words |-> <<>>,
      compound |-> 0, pos |-> 0, neg |-> 0, lowered |-> {}]}

\* what _generator does: its text holds a reply, it raises, or the reply
\* extracted from its text is empty
Generations == {"reply", "raises", "empty"}

\* the reply extracted from the generated text
GeneratedReply == <<"i", "hear", "you">>

FirmReply ==
    <<"This", "is", "not", "the", "space", "for", "that.", "Continued", "misuse",
      "may", "result", "in", "a", "locked", "session.">>

CalmReply ==
    <<"I'm", "sensing", "the", "conversation", "is", "moving", "toward", "intimacy.",
      "I'm", "here", "to", "support", "emotional", "well-being,", "not", "explicit",
      "content.", "Maybe", "we", "can", "explore", "what's", "underneath", "those",
      "feelings?">>

\* is_sexualized_prompt(user_input): a term of TERMS lies in the lowered text
is_sexualized_prompt(input) ==
    \E i \in 1..Len(input.words) : LowerWord(input.words[i]) \in TERMS

\* str(score) of a weight in thousandths
FloatStr(x) ==
    IF x = One THEN "1.0"
    ELSE <<"0.1", "0.2", "0.3", "0.4", "0.5", "0.6", "0.7", "0.8", "0.9">>[x \div 100]

\* the categories in the order of EMOTION_KEYWORDS
CategoryOrder ==
    <<"sadness", "loneliness", "anxiety", "emptiness", "anger", "shame", "fear", "joy",
      "hope", "love", "confusion", "longing">>

\* [f"emotion:{e}:{s}" for e, s in current_emotion_scores.items()]
emotion_tags(scores) ==
    LET Scored(c) == c \in DOMAIN scores
        keys == SelectSeq(CategoryOrder, Scored)
    IN [i \in 1..Len(keys) |-> <<"emotion", keys[i], FloatStr(scores[keys[i]])>>]

\* the reply saved before the user's message
ReplyFirst(user_entry, reply_entry) == <<reply_entry, user_entry>>

\* memory_store.save("user", ...) and then memory_store.save(speaker, ...)
TurnEntries(user_entry, reply_entry) == <<user_entry, reply_entry>>

\* the session table after the two saves of a turn
SaveTurn(tbl, session_id, user_entry, reply_entry) ==
    LET entries == TurnEntries(user_entry, reply_entry)
    IN AppendEntry(AppendEntry(tbl, session_id, entries[1]), session_id, entries[2])

\* a filter that never escalates: the calm deflection whatever the count
AlwaysCalm(count) == FALSE

\* if count >= 2
Escalates(count) == count >= 2

\* one pass of the loop of websocket_endpoint: the message arrives a second
\* after the last one
Turn(session_id, persona, input, generated) ==
    LET cfg == PERSONAS[persona]
        key == <<session_id, persona>>
        user_msg == input.words
        current_emotion_scores == get_emotion_weights(user_msg)
        count == count_tag(sessions, FlagTag, session_id)
        firm == Escalates(count)
        t == now + 1
        flagged == [timestamp |-> t, speaker |-> "user", message |-> user_msg,
                    emotion |-> "inappropriate", tags |-> <<FlagTag>>]
        deflection == [timestamp |-> t, speaker |-> cfg.speaker,
                       message |-> IF firm THEN FirmReply ELSE CalmReply,
                       emotion |-> IF firm THEN "firm" ELSE "calm",
                       tags |-> << <<"response">>, <<"deflected">> >>]
        user_entry == [timestamp |-> t, speaker |-> "user", message |-> user_msg,
                       emotion |-> "unknown",
                       tags |-> << <<"input">> >> \o emotion_tags(current_emotion_scores)]
        reply_entry == [timestamp |-> t, speaker |-> cfg.speaker, message |-> GeneratedReply,
                        emotion |-> cfg.default_tone, tags |-> << <<"response">> >>]
        event == [op |-> "turn", session |-> session_id, persona |-> persona,
                  message |-> input, type |-> "error", content |-> <<>>, tone |-> "",
                  emotions |-> NoScores]
        updated == LET st == Fetch(states, key, t)
                   IN [st EXCEPT ![key] = update_from_text(st[key], input, t)]
    IN /\ now < MaxTurns
       /\ now' = t
       /\ IF user_msg = <<>>
          THEN \* "Empty input"
               /\ chat' = [event EXCEPT !.content = <<"Empty", "input">>]
               /\ UNCHANGED <<states, last, held, memVars>>
          ELSE IF is_sexualized_prompt(input)
          THEN \* the safety filter: count_tag, two saves, no affect update
               /\ sessions' = SaveTurn(sessions, session_id, flagged, deflection)
               /\ file' = _persist(sessions')
               /\ mlast' = [CallRecord("save", session_id)
                               EXCEPT !.entry = TurnEntries(flagged, deflection)[2]]
               /\ out' = NoResult
               /\ chat' = [event EXCEPT !.type = "message", !.content = deflection.message,
                                        !.tone = deflection.emotion]
               /\ UNCHANGED <<states, last, held>>
          ELSE \* affect.update, affect.get_vector, get_recent, the generation
               /\ states' = updated
               /\ last' = [op |-> "get_vector", key |-> key, text |-> NoText]
               /\ UNCHANGED held
               /\ IF generated = "reply"
                  THEN /\ sessions' = SaveTurn(sessions, session_id, user_entry, reply_entry)
                       /\ file' = _persist(sessions')
                       /\ mlast' = [CallRecord("save", session_id)
                                       EXCEPT !.entry = TurnEntries(user_entry, reply_entry)[2]]
                       /\ out' = NoResult
                       /\ chat' = [event EXCEPT !.type = "message", !.content = GeneratedReply,
                                                !.tone = cfg.default_tone,
                                                !.emotions = current_emotion_scores]
                  ELSE /\ mlast' = [CallRecord("get_recent", session_id) EXCEPT !.limit = 12]
                       /\ out' = [NoResult EXCEPT
                                     !.entries = get_recent(sessions, 12, session_id, "", <<>>)]
                       /\ chat' = [event EXCEPT
                                      !.content = IF generated = "raises"
                                                  THEN <<"Generation", "failed">>
                                                  ELSE <<"Final", "reply", "was", "empty">>]
                       /\ UNCHANGED <<sessions, file>>
       /\ UNCHANGED lex
       /\ UNCHANGED <<concVars, saveVars, journalVars>>

\* reset_memory: memory_store.clear(session)
ResetMemory(session_id) ==
    /\ sessions' = ClearSession(sessions, session_id)
    /\ file' = _persist(sessions')
    /\ mlast' = CallRecord("clear", session_id)
    /\ out' = NoResult
    /\ chat' = [NoTurn EXCEPT !.op = "reset_memory", !.session = session_id]
    /\ UNCHANGED lex
    /\ UNCHANGED <<affectVars, concVars, saveVars, journalVars>>

NextChat ==
    \/ \E session_id \in ChatSessions, persona \in ChatPersonas, input \in ChatInputs,
          generated \in Generations :
          Turn(session_id, persona, input, generated)
    \/ \E session_id \in ChatSessions : ResetMemory(session_id)

SpecChat == Init /\ [][NextChat]_vars

----------------------------------------------------------------------------
(* C24 *)

\* the turn just handled was answered with the persona's generated reply
Answered(event) ==
    event.op = "turn" /\ event.type = "message" /\ ~is_sexualized_prompt(event.message)

\* C24: turn ordering within a session: every successfully answered turn
\* applies the affect update for the user's message and appends exactly two
\* entries to that session's memory log, the user's message followed by the
\* persona's reply; the entries already in the log keep their places before
\* them, so the entries of successive turns lie in the order the turns were
\* received, and no other session's log changes.
C24_TurnOrdering ==
    [][Answered(chat') =>
          LET s == chat'.session
              key == <<s, chat'.persona>>
              before == Records(sessions, s)
              after == Records(sessions', s)
              n == Len(before)
          IN /\ states'[key] =
                   update_from_text(Fetch(states, key, now')[key], chat'.message, now')
             /\ Len(after) = n + 2
             /\ SubSeq(after, 1, n) = before
             /\ after[n + 1].speaker = "user"
             /\ after[n + 1].message = chat'.message.words
             /\ after[n + 2].speaker = PERSONAS[chat'.persona].speaker
             /\ after[n + 2].message = chat'.content
             /\ \A i \in 1..n : before[i].timestamp < after[n + 1].timestamp
             /\ after[n + 1].timestamp <= after[n + 2].timestamp
             /\ \A other \in DOMAIN sessions \ {s} : sessions'[other] = sessions[other]]_vars

\* the second answered turn of a session: its two entries lie after the two
\* of the first, and the affect vector is the one the message leaves
C24_Witness ==
    /\ Answered(chat)
    /\ Len(Records(sessions, chat.session)) = 4
    /\ Records(sessions, chat.session)[1].speaker = "user"
    /\ Records(sessions, chat.session)[2].message = GeneratedReply
    /\ Records(sessions, chat.session)[2].timestamp < Records(sessions, chat.session)[3].timestamp
    /\ Records(sessions, chat.session)[3].message = <<"i", "am", "sad">>
    /\ Records(sessions, chat.session)[3].tags = << <<"input">>, <<"emotion", "sadness", "0.6">> >>
    /\ Records(sessions, chat.session)[4].speaker = "kai"
    /\ Records(sessions, chat.session)[4].message = chat.content
    /\ states[<<chat.session, chat.persona>>].vector.valence = -477

----------------------------------------------------------------------------
(* C30 *)

\* how many of the first i entries of a log carry flag:sexualized
FlaggedAmong(records, i) ==
    Cardinality({j \in 1..i : FlagTag \in Range(records[j].tags)})

\* in a session's log every flagged entry is followed by its deflection,
\* firm exactly from the third flagged entry on
EscalationInLog(records) ==
    \A i \in 1..Len(records) :
        FlagTag \in Range(records[i].tags) =>
            /\ i < Len(records)
            /\ records[i + 1].tags = << <<"response">>, <<"deflected">> >>
            /\ records[i + 1].emotion = (IF FlaggedAmong(records, i) >= 3 THEN "firm" ELSE "calm")
            /\ records[i + 1].message = (IF FlaggedAmong(records, i) >= 3 THEN FirmReply ELSE CalmReply)

\* what the handler does with a sexualized message
DeflectionStep ==
    (chat'.op = "turn" /\ is_sexualized_prompt(chat'.message)) =>
        LET s == chat'.session
            before == Records(sessions, s)
            after == Records(sessions', s)
            n == Len(before)
            count == count_tag(sessions, FlagTag, s)
        IN /\ chat'.type = "message"
           /\ (chat'.content = FirmReply /\ chat'.tone = "firm") <=> count >= 2
           /\ (chat'.content = CalmReply /\ chat'.tone = "calm") <=> count < 2
           /\ Len(after) = n + 2
           /\ SubSeq(after, 1, n) = before
           /\ after[n + 1].speaker = "user"
           /\ after[n + 1].tags = <<FlagTag>>
           /\ after[n + 2].speaker = PERSONAS[chat'.persona].speaker
           /\ after[n + 2].message = chat'.content
           /\ after[n + 2].tags = << <<"response">>, <<"deflected">> >>
           /\ count_tag(sessions', FlagTag, s) = count + 1
           /\ states' = states

\* what clear(session) does to the count
ResetStep ==
    chat'.op = "reset_memory" => count_tag(sessions', FlagTag, chat'.session) = 0

====
